---- MODULE Spec2Model ----
(***************************************************************************)
(* Image-variant geometry of sharp-js: the fit decision                    *)
(* (getImageResizeAction), the resize dimension calculation                *)
(* (SharpWrapper.calculateResizeDimensions and the eager resize), the      *)
(* focal-point crop planning and the per-variant pipeline                  *)
(* (resizeAndTransformImageSizes) over the lazy SharpWrapper, with the     *)
(* results it returns; sanitizeResizeConfig and the extract clamping of    *)
(* SharpWrapper.toBuffer are also exercised on their own (SpecSan,         *)
(* SpecWrap).  Further specifications cover the wrapper's clone and        *)
(* format handling (SpecOps), its repeated toBuffer (SpecEnc), cropImage   *)
(* (SpecCrop), the focal-point handling of generateFileData (SpecDoc) and  *)
(* getSafeFileName (SpecName, SpecNameFair).                               *)
(*                                                                         *)
(* Numbers are JavaScript Numbers (IEEE-754 binary64).  Every quantity the *)
(* code handles here is a quotient or product of small integers, so the    *)
(* model carries exact integers and decides each Math.round / Math.floor   *)
(* from the exact rational value, corrected by the one case in which the   *)
(* double result differs: the exact value sits on the rounding boundary    *)
(* (a half-integer for Math.round, an integer for Math.floor) and the      *)
(* double computed through the intermediate quotient falls just below it.  *)
(***************************************************************************)
EXTENDS Integers, Sequences, FiniteSets, TLC

(***************************************************************************)
(* Bounds of the model.                                                    *)
(***************************************************************************)
MaxDim == 5
MaxTarget == 4

(***************************************************************************)
(* Optional values.                                                        *)
(***************************************************************************)
\* an optional number left undefined; a number that is set is >= 1
UNSET == 0

\* a nullable field holds null or one value
null == {}
NonNull(v) == {v}

\* an object without keys
EmptyObject == [n \in {} |-> null]

(***************************************************************************)
(* IEEE-754 binary64 arithmetic on quotients of small positive integers.   *)
(***************************************************************************)
RECURSIVE Pow2(_)
Pow2(n) == IF n <= 0 THEN 1 ELSE 2 * Pow2(n - 1)

RECURSIVE ExpUp(_, _, _)
ExpUp(a, b, e) == IF b * Pow2(e + 1) <= a THEN ExpUp(a, b, e + 1) ELSE e

RECURSIVE ExpDown(_, _, _)
ExpDown(a, b, k) == IF a * Pow2(k) >= b THEN 0 - k ELSE ExpDown(a, b, k + 1)

\* the binary exponent E of a/b: 2^E <= a/b < 2^(E+1)   (a, b > 0)
Exponent(a, b) == IF a >= b THEN ExpUp(a, b, 0) ELSE ExpDown(a, b, 1)

RECURSIVE Pow2Mod(_, _)
Pow2Mod(n, m) == IF n <= 0 THEN 1 % m ELSE (2 * Pow2Mod(n - 1, m)) % m

\* remainder left by the 53-bit significand of a/b:
\* a * 2^(52-E) = floor(significand) * b + QuotRem(a, b)
QuotRem(a, b) == ((a % b) * Pow2Mod(52 - Exponent(a, b), b)) % b

\* the double a/b is below (resp. above) the rational a/b
QuotRoundedDown(a, b) == QuotRem(a, b) > 0 /\ 2 * QuotRem(a, b) < b
QuotRoundedUp(a, b) == 2 * QuotRem(a, b) > b

\* x * 2^e > y * 2^f for integers e, f of either sign
ScaledGreater(x, e, y, f) ==
    IF e >= f THEN x * Pow2(e - f) > y ELSE x > y * Pow2(f - e)

\* the rational n/d is a power of two
IsPow2(n, d) ==
    LET e == Exponent(n, d)
    IN IF e >= 0 THEN n = d * Pow2(e) ELSE n * Pow2(0 - e) = d

\* t * (a / b) evaluated in doubles is strictly below the rational t*a/b,
\* for t*a/b an integer or a half-integer (so itself a double)
FlMulBelow(t, a, b) ==
    /\ QuotRoundedDown(a, b)
    /\ ScaledGreater(t * QuotRem(a, b),
                     Exponent(a, b) + (IF IsPow2(t * a, b) THEN 2 ELSE 1),
                     b, Exponent(t * a, b))

\* t / (a / b) evaluated in doubles is strictly below the rational t*b/a,
\* for t*b/a an integer or a half-integer
FlDivBelow(t, a, b) ==
    /\ QuotRoundedUp(a, b)
    /\ ScaledGreater(t * b * (b - QuotRem(a, b)),
                     Exponent(a, b) + (IF IsPow2(t * b, a) THEN 2 ELSE 1),
                     a * a, Exponent(t * b, a))

\* Math.round of the non-negative rational n/d (round half up)
RoundHalfUp(n, d) == (2 * n + d) \div (2 * d)

\* n/d is a half-integer
IsHalf(n, d) == (2 * n) % d = 0 /\ ((2 * n) \div d) % 2 = 1

\* Math.round(t * (a / b))
RoundMul(t, a, b) ==
    IF IsHalf(t * a, b) /\ FlMulBelow(t, a, b)
    THEN RoundHalfUp(t * a, b) - 1
    ELSE RoundHalfUp(t * a, b)

\* Math.round(t / (a / b))
RoundDiv(t, a, b) ==
    IF IsHalf(t * b, a) /\ FlDivBelow(t, a, b)
    THEN RoundHalfUp(t * b, a) - 1
    ELSE RoundHalfUp(t * b, a)

(***************************************************************************)
(* Variant configuration (ImageSize) and the fit decision.                 *)
(***************************************************************************)
\* values of an optional boolean
Tri == {"undefined", "true", "false"}

\* values of the fit option
Fits == {"cover", "contain", "fill", "inside", "outside"}

\* values of the position option
\* values of the position option: a string, or a number (a sharp gravity
\* code, written here with a leading #); "#0" is the number 0, "" the empty string
Positions == {"undefined", "centre", "left top", "#0", "#8", ""}

\* the values of position that JavaScript treats as false
FalsyPositions == {"undefined", "#0", ""}

Dim(w, h) == [width |-> w, height |-> h]

\* an ImageSize entry of upload.imageSizes
ImageSize(n, w, h, f, p, we, wr) ==
    [name |-> n, width |-> w, height |-> h, fit |-> f, position |-> p,
     withoutEnlargement |-> we, withoutReduction |-> wr]

\* resize-and-transform.ts, sanitizeResizeConfig
sanitizeResizeConfig(resizeConfig) ==
    IF resizeConfig.withoutReduction = "true"
    THEN [resizeConfig EXCEPT
            !.fit = IF resizeConfig.fit = "undefined" THEN "contain" ELSE @,
            !.position = IF resizeConfig.position \in FalsyPositions
                         THEN "left top" ELSE @]
    ELSE resizeConfig

\* originalImage.width < (targetWidth || 0) || originalImage.height < (targetHeight || 0)
originalImageIsSmallerXOrY(originalImage, targetWidth, targetHeight) ==
    \/ originalImage.width < (IF targetWidth # UNSET THEN targetWidth ELSE 0)
    \/ originalImage.height < (IF targetHeight # UNSET THEN targetHeight ELSE 0)

\* (targetWidth || 1) / (targetHeight || 1) === originalImage.width / originalImage.height:
\* two correctly rounded quotients of small integers are the same double
\* exactly when the rationals are equal
aspectRatiosEqual(originalImage, targetWidth, targetHeight) ==
    originalImage.width * (IF targetHeight # UNSET THEN targetHeight ELSE 1)
        = (IF targetWidth # UNSET THEN targetWidth ELSE 1) * originalImage.height

getImageResizeActionSmallerOr(originalImage, hasFocalPoint, imageResizeConfig) ==
    LET fit == imageResizeConfig.fit
        withoutEnlargement == imageResizeConfig.withoutEnlargement
        withoutReduction == imageResizeConfig.withoutReduction
        targetWidth == imageResizeConfig.width
        targetHeight == imageResizeConfig.height
    IN  IF /\ targetHeight # UNSET /\ targetWidth # UNSET
           /\ withoutEnlargement = "undefined"
           /\ (originalImage.width < targetWidth \/ originalImage.height < targetHeight)
        THEN "omit"
        ELSE IF /\ withoutEnlargement = "undefined"
                /\ (targetWidth = UNSET \/ targetHeight = UNSET)
                /\ \/ (targetWidth # UNSET /\ originalImage.width < targetWidth)
                   \/ (targetHeight # UNSET /\ originalImage.height < targetHeight)
        THEN "omit"
        ELSE IF fit = "contain" \/ fit = "inside" THEN "resize"
        ELSE IF targetHeight = UNSET /\ targetWidth = UNSET THEN "resize"
        ELSE IF aspectRatiosEqual(originalImage, targetWidth, targetHeight) THEN "resize"
        ELSE IF /\ withoutEnlargement = "true"
                /\ originalImageIsSmallerXOrY(originalImage, targetWidth, targetHeight)
        THEN "resize"
        ELSE IF /\ withoutReduction = "true"
                /\ ~originalImageIsSmallerXOrY(originalImage, targetWidth, targetHeight)
        THEN "resize"
        ELSE IF hasFocalPoint THEN "resizeWithFocalPoint" ELSE "resize"

getImageResizeActionNoAspectRule(originalImage, hasFocalPoint, imageResizeConfig) ==
    LET fit == imageResizeConfig.fit
        withoutEnlargement == imageResizeConfig.withoutEnlargement
        withoutReduction == imageResizeConfig.withoutReduction
        targetWidth == imageResizeConfig.width
        targetHeight == imageResizeConfig.height
    IN  IF /\ targetHeight # UNSET /\ targetWidth # UNSET
           /\ withoutEnlargement = "undefined"
           /\ originalImage.width < targetWidth /\ originalImage.height < targetHeight
        THEN "omit"
        ELSE IF /\ withoutEnlargement = "undefined"
                /\ (targetWidth = UNSET \/ targetHeight = UNSET)
                /\ \/ (targetWidth # UNSET /\ originalImage.width < targetWidth)
                   \/ (targetHeight # UNSET /\ originalImage.height < targetHeight)
        THEN "omit"
        ELSE IF fit = "contain" \/ fit = "inside" THEN "resize"
        ELSE IF targetHeight = UNSET /\ targetWidth = UNSET THEN "resize"
        ELSE IF /\ withoutEnlargement = "true"
                /\ originalImageIsSmallerXOrY(originalImage, targetWidth, targetHeight)
        THEN "resize"
        ELSE IF /\ withoutReduction = "true"
                /\ ~originalImageIsSmallerXOrY(originalImage, targetWidth, targetHeight)
        THEN "resize"
        ELSE IF hasFocalPoint THEN "resizeWithFocalPoint" ELSE "resize"

\* resize-and-transform.ts, getImageResizeAction
getImageResizeActionNoFallback(originalImage, hasFocalPoint, imageResizeConfig) ==
    IF getImageResizeActionNoAspectRule(originalImage, hasFocalPoint,
                                        imageResizeConfig) = "resizeWithFocalPoint"
    THEN "resizeWithFocalPoint"
    ELSE IF imageResizeConfig.fit = "contain" \/ imageResizeConfig.fit = "inside"
    THEN "resize"
    ELSE "none"

getImageResizeAction(originalImage, hasFocalPoint, imageResizeConfig) ==
    LET fit == imageResizeConfig.fit
        withoutEnlargement == imageResizeConfig.withoutEnlargement
        withoutReduction == imageResizeConfig.withoutReduction
        targetWidth == imageResizeConfig.width
        targetHeight == imageResizeConfig.height
    IN  IF /\ targetHeight # UNSET /\ targetWidth # UNSET
           /\ withoutEnlargement = "undefined"
           /\ originalImage.width < targetWidth /\ originalImage.height < targetHeight
        THEN "omit"
        ELSE IF /\ withoutEnlargement = "undefined"
                /\ (targetWidth = UNSET \/ targetHeight = UNSET)
                /\ \/ (targetWidth # UNSET /\ originalImage.width < targetWidth)
                   \/ (targetHeight # UNSET /\ originalImage.height < targetHeight)
        THEN "omit"
        ELSE IF fit = "contain" \/ fit = "inside" THEN "resize"
        ELSE IF targetHeight = UNSET /\ targetWidth = UNSET THEN "resize"
        ELSE IF aspectRatiosEqual(originalImage, targetWidth, targetHeight) THEN "resize"
        ELSE IF /\ withoutEnlargement = "true"
                /\ originalImageIsSmallerXOrY(originalImage, targetWidth, targetHeight)
        THEN "resize"
        ELSE IF /\ withoutReduction = "true"
                /\ ~originalImageIsSmallerXOrY(originalImage, targetWidth, targetHeight)
        THEN "resize"
        ELSE IF hasFocalPoint THEN "resizeWithFocalPoint" ELSE "resize"

(***************************************************************************)
(* SharpWrapper.calculateResizeDimensions (lazy wrapper) and the           *)
(* calculation inside the eager SharpWrapper.resize.                       *)
(***************************************************************************)
\* image.width / image.height > targetWidth / targetHeight
aspectWider(image, targetWidth, targetHeight) ==
    image.width * targetHeight > targetWidth * image.height

fillDimensionsSwapped(targetWidth, targetHeight) == Dim(targetHeight, targetWidth)

\* fit === 'fill'
fillDimensions(targetWidth, targetHeight) == Dim(targetWidth, targetHeight)

containDimensionsMulDiv(image, targetWidth, targetHeight, fit) ==
    IF aspectWider(image, targetWidth, targetHeight)
    THEN LET finalHeight == RoundMul(targetWidth, image.width, image.height)
         IN  IF finalHeight > targetHeight /\ fit = "inside"
             THEN Dim(RoundMul(targetHeight, image.width, image.height), targetHeight)
             ELSE Dim(targetWidth, finalHeight)
    ELSE LET finalWidth == RoundDiv(targetHeight, image.width, image.height)
         IN  IF finalWidth > targetWidth /\ fit = "inside"
             THEN Dim(targetWidth, RoundDiv(targetWidth, image.width, image.height))
             ELSE Dim(finalWidth, targetHeight)

\* fit === 'contain' || fit === 'inside'
containDimensions(image, targetWidth, targetHeight, fit) ==
    IF aspectWider(image, targetWidth, targetHeight)
    THEN LET finalHeight == RoundDiv(targetWidth, image.width, image.height)
         IN  IF finalHeight > targetHeight /\ fit = "inside"
             THEN Dim(RoundMul(targetHeight, image.width, image.height), targetHeight)
             ELSE Dim(targetWidth, finalHeight)
    ELSE LET finalWidth == RoundMul(targetHeight, image.width, image.height)
         IN  IF finalWidth > targetWidth /\ fit = "inside"
             THEN Dim(targetWidth, RoundDiv(targetWidth, image.width, image.height))
             ELSE Dim(finalWidth, targetHeight)

coverDimensionsInverted(image, targetWidth, targetHeight) ==
    IF ~aspectWider(image, targetWidth, targetHeight)
    THEN Dim(RoundMul(targetHeight, image.width, image.height), targetHeight)
    ELSE Dim(targetWidth, RoundDiv(targetWidth, image.width, image.height))

\* fit === 'cover' || !fit
coverDimensions(image, targetWidth, targetHeight) ==
    IF aspectWider(image, targetWidth, targetHeight)
    THEN Dim(RoundMul(targetHeight, image.width, image.height), targetHeight)
    ELSE Dim(targetWidth, RoundDiv(targetWidth, image.width, image.height))

Max(a, b) == IF a >= b THEN a ELSE b

\* fit === 'outside'
outsideDimensions(image, targetWidth, targetHeight) ==
    IF aspectWider(image, targetWidth, targetHeight)
    THEN LET finalWidth ==
                 Max(targetWidth, RoundMul(targetHeight, image.width, image.height))
         IN  Dim(finalWidth, RoundDiv(finalWidth, image.width, image.height))
    ELSE LET finalHeight ==
                 Max(targetHeight, RoundDiv(targetWidth, image.width, image.height))
         IN  Dim(RoundMul(finalHeight, image.width, image.height), finalHeight)

widthOnlyDimensionsInverted(image, targetWidth) ==
    Dim(targetWidth, RoundMul(targetWidth, image.width, image.height))

\* only one target axis given
widthOnlyDimensions(image, targetWidth) ==
    Dim(targetWidth, RoundDiv(targetWidth, image.width, image.height))

heightOnlyDimensions(image, targetHeight) ==
    Dim(RoundMul(targetHeight, image.width, image.height), targetHeight)

\* sharp-wrapper.ts, SharpWrapper.calculateResizeDimensions
calculateResizeDimensions(image, resizeOptions) ==
    LET targetWidth == resizeOptions.width
        targetHeight == resizeOptions.height
        fit == IF resizeOptions.fit = "undefined" THEN "cover" ELSE resizeOptions.fit
    IN  IF targetWidth # UNSET /\ targetHeight # UNSET
        THEN IF fit = "fill" THEN fillDimensions(targetWidth, targetHeight)
             ELSE IF fit = "contain" \/ fit = "inside"
                  THEN containDimensions(image, targetWidth, targetHeight, fit)
             ELSE IF fit = "cover"
                  THEN coverDimensions(image, targetWidth, targetHeight)
             ELSE IF fit = "outside"
                  THEN outsideDimensions(image, targetWidth, targetHeight)
             ELSE Dim(image.width, image.height)
        ELSE IF targetWidth # UNSET THEN widthOnlyDimensions(image, targetWidth)
        ELSE IF targetHeight # UNSET THEN heightOnlyDimensions(image, targetHeight)
        ELSE Dim(image.width, image.height)

\* sharp-wrapper.ts, the dimensions computed by the eager SharpWrapper.resize
\* (options-object signature)
eagerResizeDimensions(image, options) ==
    LET targetWidth == options.width
        targetHeight == options.height
        fit == IF options.fit = "undefined" THEN "cover" ELSE options.fit
    IN  IF targetWidth # UNSET /\ targetHeight # UNSET
        THEN IF fit = "fill" THEN Dim(targetWidth, targetHeight)
             ELSE IF fit = "contain" \/ fit = "inside"
                  THEN containDimensions(image, targetWidth, targetHeight, fit)
             ELSE IF fit = "cover"
                  THEN coverDimensions(image, targetWidth, targetHeight)
             ELSE IF fit = "outside"
                  THEN outsideDimensions(image, targetWidth, targetHeight)
             ELSE Dim(image.width, image.height)
        ELSE IF targetWidth # UNSET
             THEN Dim(targetWidth, RoundDiv(targetWidth, image.width, image.height))
        ELSE IF targetHeight # UNSET
             THEN Dim(RoundMul(targetHeight, image.width, image.height), targetHeight)
        ELSE Dim(image.width, image.height)

(***************************************************************************)
(* The lazy SharpWrapper: resize and extract are stored on the instance    *)
(* and applied by toBuffer.                                                *)
(***************************************************************************)
NoImage == [loaded |-> FALSE, width |-> 0, height |-> 0]
NoResize == [set |-> FALSE, width |-> UNSET, height |-> UNSET, fit |-> "undefined"]
NoRegion == [set |-> FALSE, left |-> 0, top |-> 0, width |-> 0, height |-> 0]
NoInfo == [width |-> 0, height |-> 0]

\* new SharpWrapper(input): nothing decoded, no pending operation
newSharpWrapper ==
    [image |-> NoImage, resizeOptions |-> NoResize, extractRegion |-> NoRegion,
     format |-> "png", encodeOptions |-> EmptyObject]

cloneWithoutOperations(this) ==
    [image |-> this.image, resizeOptions |-> NoResize, extractRegion |-> NoRegion,
     format |-> this.format, encodeOptions |-> this.encodeOptions]

\* SharpWrapper.clone
clone(this) ==
    [image |-> this.image,
     resizeOptions |-> this.resizeOptions,
     extractRegion |-> this.extractRegion,
     format |-> this.format,
     encodeOptions |-> this.encodeOptions]

\* SharpWrapper.resize (lazy, options-object signature)
resize(this, options) ==
    [this EXCEPT !.resizeOptions =
        [set |-> TRUE, width |-> options.width, height |-> options.height,
         fit |-> options.fit]]

\* SharpWrapper.extract
extract(this, region) ==
    [this EXCEPT !.extractRegion =
        [set |-> TRUE, left |-> region.left, top |-> region.top,
         width |-> region.width, height |-> region.height]]

\* SharpWrapper.getImage: the decoded input, cached on the instance
getImage(this, input) ==
    IF this.image.loaded THEN this.image
    ELSE [loaded |-> TRUE, width |-> input.width, height |-> input.height]

clampRegionNoEdge(region, imgWidth, imgHeight) ==
    [set |-> region.set, left |-> Max(0, region.left), top |-> Max(0, region.top),
     width |-> Max(1, region.width), height |-> Max(1, region.height)]

\* the extract region of toBuffer after clamping to the image
clampRegion(region, imgWidth, imgHeight) ==
    LET left == Max(0, region.left)
        top == Max(0, region.top)
        width == Max(1, region.width)
        height == Max(1, region.height)
    IN  [set |-> region.set, left |-> left, top |-> top,
         width |-> IF left + width > imgWidth THEN Max(1, imgWidth - left) ELSE width,
         height |-> IF top + height > imgHeight THEN Max(1, imgHeight - top) ELSE height]

\* the final validation of toBuffer throws
regionInvalid(clamped, imgWidth, imgHeight) ==
    \/ clamped.width <= 0 \/ clamped.height <= 0
    \/ clamped.left >= imgWidth \/ clamped.top >= imgHeight

\* the encoded payload of an image, identified by the encoder that wrote it
\* and the image it decodes to
encodePng(width, height) == [format |-> "png", width |-> width, height |-> height]

encodeJpeg(width, height) == [format |-> "jpeg", width |-> width, height |-> height]

\* the formats toFormat accepts, and the per-format methods of the same names
RequestedFormats ==
    {"jpeg", "jpg", "png", "webp", "avif", "heif", "tiff", "gif", "jp2", "jxl", "raw"}

\* the formats image-js can encode
EncodableFormats == {"png", "jpeg"}

\* the value toFormat(format) and the method named format store in this.format
storedFormatNoFallback(format) == IF format = "jpg" THEN "jpeg" ELSE format

storedFormat(format) ==
    IF format = "jpg" THEN "jpeg"
    ELSE IF format \in {"png", "jpeg", "webp"} THEN format
    ELSE "png"

\* SharpWrapper.toFormat(format, options): options replace the encode options
\* when they are given (null: not given)
toFormat(this, format, options) ==
    [this EXCEPT !.format = storedFormat(format),
                 !.encodeOptions = IF options = null THEN @
                                   ELSE CHOOSE o \in options : TRUE]

\* the encode step of toBuffer: JPEG for 'jpeg', PNG for everything else
encode(format, width, height) ==
    IF format = "jpeg" THEN encodeJpeg(width, height) ELSE encodePng(width, height)

NoData == [format |-> "none", width |-> 0, height |-> 0]

\* buffer.length: the byte count is the encoder's business; the model takes
\* a signature plus four bytes per pixel
byteLength(data) ==
    IF data.format = "none" THEN 0 ELSE 8 + 4 * data.width * data.height

\* the Error objects toBuffer can throw: the message of the extract error
\* quotes the requested region, the clamped region and the image size
NoError == [message |-> "none"]

extractError(requested, clamped, resized) ==
    [message |-> "Cannot extract region: resulting region is invalid after clamping.",
     requested |-> requested, clamped |-> clamped, imageSize |-> resized]

\* image-js refuses to create an image with a side below 1
resizeError(resized) == [message |-> "image-js: invalid size", imageSize |-> resized]

\* the outcome of a toBuffer call
BufferResult(this, error, croppedFrom, cropped, width, height) ==
    [this |-> this, threw |-> error.message # "none", error |-> error,
     croppedFrom |-> croppedFrom, cropped |-> cropped,
     info |-> Dim(width, height),
     format |-> this.format,
     data |-> IF error.message # "none" THEN NoData
              ELSE encode(this.format, width, height),
     size |-> IF error.message # "none" THEN 0
              ELSE byteLength(encode(this.format, width, height))]

\* SharpWrapper.toBuffer after its resize step: `this` holds the decoded
\* image and `resized` the dimensions of the local image the pending extract
\* is applied to.
applyExtractAndEncode(this, resized) ==
    LET clamped == clampRegion(this.extractRegion, resized.width, resized.height)
    IN  IF this.resizeOptions.set /\ (resized.width < 1 \/ resized.height < 1)
        THEN BufferResult(this, resizeError(resized), NoInfo, NoRegion, 0, 0)
        ELSE IF ~this.extractRegion.set
        THEN BufferResult([this EXCEPT !.resizeOptions = NoResize], NoError,
                          NoInfo, NoRegion, resized.width, resized.height)
        ELSE IF regionInvalid(clamped, resized.width, resized.height)
        THEN BufferResult([this EXCEPT !.resizeOptions = NoResize],
                          extractError(this.extractRegion, clamped, resized),
                          NoInfo, NoRegion, 0, 0)
        ELSE BufferResult([this EXCEPT !.resizeOptions = NoResize,
                                       !.extractRegion = NoRegion],
                          NoError, Dim(resized.width, resized.height),
                          [clamped EXCEPT !.set = TRUE],
                          clamped.width, clamped.height)

\* SharpWrapper.toBuffer({ resolveWithObject: true }) on an instance whose
\* input decodes to `input`.  The result carries the instance as the call
\* leaves it, whether the call threw, the dimensions of the image the
\* extract was applied to (croppedFrom) and the info of the encoded image.
\* The resize acts on a local image only: this.image stays the decoded input.
toBuffer(this, input) ==
    applyExtractAndEncode(
        [this EXCEPT !.image = getImage(this, input)],
        IF this.resizeOptions.set
        THEN calculateResizeDimensions(getImage(this, input), this.resizeOptions)
        ELSE Dim(getImage(this, input).width, getImage(this, input).height))

(***************************************************************************)
(* Focal-point crop planning of resizeAndTransformImageSizes.              *)
(***************************************************************************)
\* utils/extract-height-from-image.ts
extractHeightFromImage(metadata) ==
    IF metadata.pages # UNSET /\ metadata.pages > 1
    THEN metadata.height \div metadata.pages
    ELSE metadata.height

\* SharpWrapper.metadata: width and height read from the header; the wrapper
\* never reports pages
metadata(input) == [width |-> input.width, height |-> input.height, pages |-> UNSET]

\* resizeWidth / resizeHeight of the focal-point branch after a missing axis
\* has been derived from the other one
resolvedAxes(imageResizeConfig, adjustedDimensions) ==
    LET w0 == imageResizeConfig.width
        h0 == imageResizeConfig.height
        w1 == IF h0 # UNSET /\ w0 = UNSET
              THEN RoundMul(h0, adjustedDimensions.width, adjustedDimensions.height)
              ELSE w0
    IN  [width |-> w1,
         height |-> IF w1 # UNSET /\ h0 = UNSET
                    THEN RoundDiv(w1, adjustedDimensions.width,
                                  adjustedDimensions.height)
                    ELSE h0]

\* an axis that is still 0 is read from the shared resizeImageMeta
readsResizeImageMeta(axes) == axes.width = UNSET \/ axes.height = UNSET

resolveTargetFrom(axes, resizeImageMeta) ==
    [width |-> IF axes.width = UNSET THEN resizeImageMeta.width ELSE axes.width,
     height |-> IF axes.height = UNSET THEN resizeImageMeta.height ELSE axes.height]

\* resizeWidth / resizeHeight of the focal-point branch
resolveTarget(imageResizeConfig, adjustedDimensions, resizeImageMeta) ==
    resolveTargetFrom(resolvedAxes(imageResizeConfig, adjustedDimensions),
                      resizeImageMeta)

\* prioritizeHeight = resizeWidth / resizeHeight < originalAspectRatio
prioritizeHeight(target, adjustedDimensions) ==
    target.width * adjustedDimensions.height < adjustedDimensions.width * target.height

\* the options of the pre-scale resize
prescaleOptions(target, adjustedDimensions) ==
    IF prioritizeHeight(target, adjustedDimensions)
    THEN [width |-> UNSET, height |-> target.height, fit |-> "cover"]
    ELSE [width |-> target.width, height |-> UNSET, fit |-> "cover"]

focalBoundUnclamped(size, percent, target) ==
    LET num == 2 * size * percent - 100 * target
    IN  IF num < 0 THEN 0 ELSE num \div 200

focalBoundNoHalf(size, percent, target) ==
    LET num == 2 * size * percent
    IN  IF 2 * size * percent + 100 * target > 200 * size
        THEN Max(0, size - target)
        ELSE IF num < 0 THEN 0
        ELSE num \div 200

\* Math.floor(leftBound) (resp. topBound):
\* center = size * (percent / 100), bound = center - target / 2,
\* bound = size - target if center + target / 2 > size, bound = 0 if negative.
\* num is 200 times the exact center - target / 2.
focalBound(size, percent, target) ==
    LET num == 2 * size * percent - 100 * target
    IN  IF 2 * size * percent + 100 * target > 200 * size
        THEN Max(0, size - target)
        ELSE IF num < 0 THEN 0
        ELSE IF num > 0 /\ num % 200 = 0 /\ FlMulBelow(size, percent, 100)
        THEN num \div 200 - 1
        ELSE num \div 200

\* the region handed to extract
focalRegion(meta, focalPoint, target) ==
    [left |-> focalBound(meta.width, focalPoint.x, target.width),
     top |-> focalBound(meta.height, focalPoint.y, target.height),
     width |-> target.width,
     height |-> target.height]

(***************************************************************************)
(* Results of resizeAndTransformImageSizes.                                *)
(***************************************************************************)
\* ['image/avif', 'image/gif', 'image/webp'].includes(file.mimetype)
fileIsAnimatedType(file) ==
    file.mimetype \in {"image/avif", "image/gif", "image/webp"}

\* getSanitizedImageData(savedFilename)
sanitizedImage == [name |-> "photo", ext |-> "jpg"]

staticPath == "media"

\* fileTypeFromBuffer(bufferData): the type sniffed from the payload
fileTypeFromBuffer(data) == [ext |-> data.format, mime |-> "image/" \o data.format]

createImageNameSwapped(args) ==
    args.outputImageName \o "-" \o ToString(args.height) \o "x"
        \o ToString(args.width) \o "." \o args.extension

\* `${outputImageName}-${width}x${height}.${extension}`
createImageName(args) ==
    args.outputImageName \o "-" \o ToString(args.width) \o "x"
        \o ToString(args.height) \o "." \o args.extension

\* a destructured parameter with a default value
withDefault(args, field, default) ==
    IF field \in DOMAIN args THEN args[field] ELSE default

createResultZeroDefaults(args) ==
    [sizeData |->
        args.name :> [filename |-> withDefault(args, "filename", null),
                      filesize |-> withDefault(args, "filesize", NonNull(0)),
                      height |-> withDefault(args, "height", NonNull(0)),
                      mimeType |-> withDefault(args, "mimeType", null),
                      width |-> withDefault(args, "width", NonNull(0))],
     sizesToSave |-> withDefault(args, "sizesToSave", <<>>)]

\* createResult: every field but the name defaults to null, sizesToSave to []
createResult(args) ==
    [sizeData |->
        args.name :> [filename |-> withDefault(args, "filename", null),
                      filesize |-> withDefault(args, "filesize", null),
                      height |-> withDefault(args, "height", null),
                      mimeType |-> withDefault(args, "mimeType", null),
                      width |-> withDefault(args, "width", null)],
     sizesToSave |-> withDefault(args, "sizesToSave", <<>>)]

\* the height reported in the result of a variant
resultHeight(file, originalImageMeta, height) ==
    IF fileIsAnimatedType(file) /\ originalImageMeta.pages # UNSET
    THEN height \div originalImageMeta.pages
    ELSE height

\* focalPoint is carried over when the collection has the focal point
\* enabled, sizeData and sizesToSave start empty
defaultResult(focalPointEnabled, incomingFocalPoint) ==
    [focalPoint |-> IF focalPointEnabled /\ incomingFocalPoint.set
                    THEN incomingFocalPoint
                    ELSE [set |-> FALSE, x |-> 50, y |-> 50],
     sizeData |-> EmptyObject,
     sizesToSave |-> <<>>]

RECURSIVE reduceResultsUnshift(_, _)
reduceResultsUnshift(results, acc) ==
    IF results = <<>> THEN acc
    ELSE reduceResultsUnshift(Tail(results),
            [acc EXCEPT !.sizeData = Head(results).sizeData @@ acc.sizeData,
                        !.sizesToSave = Head(results).sizesToSave \o acc.sizesToSave])

\* results.reduce: Object.assign on sizeData, push on sizesToSave, in list order
RECURSIVE reduceResults(_, _)
reduceResults(results, acc) ==
    IF results = <<>> THEN acc
    ELSE reduceResults(Tail(results),
            [acc EXCEPT !.sizeData = Head(results).sizeData @@ acc.sizeData,
                        !.sizesToSave = acc.sizesToSave \o Head(results).sizesToSave])

(***************************************************************************)
(* State.                                                                  *)
(***************************************************************************)
VARIABLES
    fnArgs,             \* arguments of a call of the pure functions
    fnPc,               \* which of the pure functions is called next
    fnAction,           \* result of getImageResizeAction
    fnFinal,            \* result of calculateResizeDimensions
    fnEager,            \* dimensions computed by the eager resize
    dimensions,         \* ResizeArgs.dimensions, the size of the uploaded image
    incomingFocalPoint, \* the rounded focal point of uploadEdits, if any
    imageSizes,         \* config.upload.imageSizes
    resizeImageMeta,    \* the record shared by the per-variant tasks
    started,            \* number of map callbacks already invoked
    tasks,              \* per-variant task: position and locals
    outcome,            \* what resizeAndTransformImageSizes settles with
    file,               \* req.file: mimetype and the frames the upload holds
    payloadUploadSizes, \* req.payloadUploadSizes
    metaWriter,         \* the task that last wrote resizeImageMeta (0: none)
    sanConfig,          \* the spec object a caller hands to sanitizeResizeConfig
    sanResult,          \* the object sanitizeResizeConfig returned
    sharpInput,         \* dimensions of the image a SharpWrapper was built on
    sharp,              \* a SharpWrapper instance driven directly
    sharpResult         \* what its last toBuffer call produced

fnVars == <<fnArgs, fnPc, fnAction, fnFinal, fnEager>>
pipeVars == <<dimensions, incomingFocalPoint, imageSizes, resizeImageMeta,
              started, tasks, outcome, file, payloadUploadSizes, metaWriter>>
sanVars == <<sanConfig, sanResult>>
wrapVars == <<sharpInput, sharp, sharpResult>>

VARIABLES
    opsInput,           \* dimensions of the image two wrappers are built on
    opsWrappers,        \* a wrapper and the wrapper clone() made of it
    opsCloned,          \* whether clone() was called, on what, and what it made
    encInput,           \* dimensions of the image one wrapper is built on
    encWrapper,         \* that wrapper
    encRequested,       \* the output format last asked of it
    encBuffers,         \* its last toBuffer results
    cropArgs,           \* arguments of a cropImage call
    cropResult,         \* what the call settled with
    docArgs,            \* arguments of a generateFileData call
    docPc,              \* how far the call has come
    docUploadEdits,     \* the upload edits parsed from request and data
    docFile,            \* the file being processed, if any
    docSizes,           \* what resizeAndTransformImageSizes did and returned
    docData,            \* the document data the call returns
    nameFiles,          \* the file names that exist under staticPath
    nameDesired,        \* desiredFilename of a getSafeFileName call
    nameCounter,        \* its counter
    nameSafe,           \* its fsSafeName
    namePc              \* its position: at the loop test or returned

opsVars == <<opsInput, opsWrappers, opsCloned>>
encVars == <<encInput, encWrapper, encRequested, encBuffers>>
cropVars == <<cropArgs, cropResult>>
docVars == <<docArgs, docPc, docUploadEdits, docFile, docSizes, docData>>
nameVars == <<nameFiles, nameDesired, nameCounter, nameSafe, namePc>>
extVars == <<opsVars, encVars, cropVars, docVars, nameVars>>

\* all the state a call sequence on wrappers, a cropImage call, a
\* generateFileData call or a getSafeFileName call does not touch
opsRest == <<encVars, cropVars, docVars, nameVars>>
encRest == <<opsVars, cropVars, docVars, nameVars>>
cropRest == <<opsVars, encVars, docVars, nameVars>>
docRest == <<opsVars, encVars, cropVars, nameVars>>
nameRest == <<opsVars, encVars, cropVars, docVars>>
vars == <<fnArgs, fnPc, fnAction, fnFinal, fnEager, dimensions,
          incomingFocalPoint, imageSizes, resizeImageMeta, started, tasks,
          outcome, file, payloadUploadSizes, metaWriter, sanConfig, sanResult,
          sharpInput, sharp, sharpResult, extVars>>

(***************************************************************************)
(* Inputs.                                                                 *)
(***************************************************************************)
Dims == {Dim(w, h) : w \in 1..MaxDim, h \in 1..MaxDim}

Targets == {UNSET} \cup (1..MaxTarget)

NoFocalPoint == [set |-> FALSE, x |-> 50, y |-> 50]
FocalPoint(x, y) == [set |-> TRUE, x |-> x, y |-> y]

\* every configuration of the fit decision within the bounds
FnConfigs ==
    {ImageSize("a", w, h, f, "undefined", we, wr) :
        w \in Targets, h \in Targets, f \in Fits \cup {"undefined"},
        we \in Tri, wr \in Tri}

FnArgs(o, c, f) == [original |-> o, config |-> c, hasFocalPoint |-> f]

\* inputs beyond the bounds: the examples of the specification and the
\* smallest images on which a double falls below a half-integer
FnExamples ==
    {FnArgs(Dim(100, 100),
            ImageSize("a", 200, 200, "undefined", "undefined", "undefined", "undefined"),
            FALSE),
     FnArgs(Dim(1600, 900),
            ImageSize("a", 800, 450, "undefined", "undefined", "undefined", "undefined"),
            TRUE),
     FnArgs(Dim(18, 7),
            ImageSize("a", 9, 4, "contain", "undefined", "undefined", "undefined"),
            FALSE),
     FnArgs(Dim(18, 7),
            ImageSize("a", 9, 4, "inside", "undefined", "undefined", "undefined"),
            FALSE),
     FnArgs(Dim(18, 7),
            ImageSize("a", 9, 3, "cover", "undefined", "undefined", "undefined"),
            TRUE),
     FnArgs(Dim(15, 22),
            ImageSize("a", 7, 11, "cover", "undefined", "undefined", "undefined"),
            TRUE),
     FnArgs(Dim(18, 7),
            ImageSize("a", 9, UNSET, "undefined", "undefined", "undefined", "undefined"),
            FALSE),
     FnArgs(Dim(15, 22),
            ImageSize("a", UNSET, 11, "fill", "undefined", "undefined", "undefined"),
            FALSE)}

FnInputs ==
    {FnArgs(o, c, f) : o \in Dims, c \in FnConfigs, f \in BOOLEAN} \cup FnExamples

FocalPercents == {0 - 20, 50, 80, 130}
FocalPoints ==
    {NoFocalPoint} \cup {FocalPoint(x, y) : x \in FocalPercents, y \in {0, 50}}

\* configurations of a pipeline run with one variant
PipeConfigs ==
    {ImageSize("a", w, h, f, "undefined", we, wr) :
        w \in Targets, h \in Targets, f \in {"undefined", "contain"},
        we \in Tri, wr \in {"undefined", "true"}}

\* configurations of a pipeline run with two variants
PairConfigs(n) ==
    {ImageSize(n, w, h, "undefined", "undefined", "false", "undefined") :
        w \in 0..2, h \in 0..2}

\* a still image and an animated one
StillFile == [mimetype |-> "image/png", frames |-> 1]
AnimatedFile == [mimetype |-> "image/gif", frames |-> 4]

PipeInputOf(d, f, s, upload) ==
    [dimensions |-> d, focalPoint |-> f, imageSizes |-> s, file |-> upload]

PipeInput(d, f, s) == PipeInputOf(d, f, s, StillFile)

\* the examples of the specification, the smallest image on which a double
\* falls below an integer bound, a four-frame upload whose frames are stacked
\* to a height of 800, a list that uses one name twice, and a list whose
\* first variant is omitted
PipeExamples ==
    {PipeInput(Dim(1000, 500), FocalPoint(80, 50),
        <<ImageSize("a", 300, 300, "undefined", "undefined", "undefined", "undefined")>>),
     PipeInput(Dim(200, 100), FocalPoint(29, 50),
        <<ImageSize("a", 10, 50, "undefined", "undefined", "undefined", "undefined")>>),
     PipeInputOf(Dim(100, 800), NoFocalPoint,
        <<ImageSize("a", 50, UNSET, "undefined", "undefined", "undefined", "undefined")>>,
        AnimatedFile),
     PipeInput(Dim(3, 2), NoFocalPoint,
        <<ImageSize("a", 2, UNSET, "undefined", "undefined", "false", "undefined"),
          ImageSize("a", 4, UNSET, "undefined", "undefined", "undefined", "undefined")>>),
     PipeInput(Dim(3, 2), FocalPoint(80, 50),
        <<ImageSize("a", 4, UNSET, "undefined", "undefined", "undefined", "undefined"),
          ImageSize("b", 2, 2, "undefined", "undefined", "undefined", "undefined")>>)}

PipeInputs ==
    {PipeInput(d, f, <<c>>) : d \in Dims, f \in FocalPoints, c \in PipeConfigs}
    \cup {PipeInput(d, f, <<a, b>>) :
            d \in {Dim(w, h) : w \in 1..3, h \in 1..3},
            f \in {FocalPoint(80, 50)},
            a \in PairConfigs("a"), b \in PairConfigs("b")}
    \cup PipeExamples

\* the spec objects handed to sanitizeResizeConfig
SanitizeConfigs ==
    {ImageSize("a", w, h, f, p, we, wr) :
        w \in {UNSET, 1}, h \in {UNSET, 1}, f \in Fits \cup {"undefined"},
        p \in Positions, we \in Tri, wr \in Tri}

\* regions handed to extract: inside, overhanging and outside the image,
\* with negative offsets and empty sizes
Regions ==
    {[left |-> l, top |-> t, width |-> w, height |-> h] :
        l \in (0 - 1)..(MaxTarget + 1), t \in {0 - 1, 0, 2},
        w \in 0..(MaxTarget + 1), h \in {0, 1, 3}}

\* resize options stored before the extract
WrapResizes ==
    {[width |-> w, height |-> UNSET, fit |-> "undefined"] : w \in 1..MaxTarget}

\* images a wrapper is built on
WrapInputs == {Dim(w, h) : w \in 1..MaxDim, h \in 1..3}

(***************************************************************************)
(* The pure functions, called on every input.                              *)
(***************************************************************************)
resizeOptionsOf(config) ==
    [width |-> config.width, height |-> config.height, fit |-> config.fit]

IdleTask ==
    [pc |-> "idle", action |-> "none", resized |-> newSharpWrapper,
     target |-> NoInfo, prescaleInfo |-> NoInfo, region |-> NoRegion,
     croppedFrom |-> NoInfo, info |-> NoInfo, size |-> 0,
     calls |-> {}, metaFrom |-> {}, wrote |-> FALSE,
     result |-> [sizeData |-> EmptyObject, sizesToSave |-> <<>>]]

NoResult == [focalPoint |-> NoFocalPoint, sizeData |-> EmptyObject,
             sizesToSave |-> <<>>]

\* nothing settled, no task has failed
NoOutcome ==
    [status |-> "pending", firstFailure |-> 0, error |-> NoError,
     result |-> NoResult]

NoConfig ==
    ImageSize("a", UNSET, UNSET, "undefined", "undefined", "undefined", "undefined")

NoBufferResult ==
    [this |-> newSharpWrapper, threw |-> FALSE, error |-> NoError,
     croppedFrom |-> NoInfo, cropped |-> NoRegion, info |-> NoInfo,
     format |-> "png", data |-> NoData, size |-> 0]

\* the pure functions are not being called
FnIdle ==
    /\ fnArgs = FnArgs(Dim(1, 1), NoConfig, FALSE)
    /\ fnPc = "off"
    /\ fnAction = "none"
    /\ fnFinal = NoInfo
    /\ fnEager = NoInfo

\* no pipeline run
PipeIdle ==
    /\ dimensions = Dim(1, 1)
    /\ incomingFocalPoint = NoFocalPoint
    /\ imageSizes = <<>>
    /\ resizeImageMeta = Dim(1, 1)
    /\ started = 0
    /\ tasks = <<>>
    /\ outcome = NoOutcome
    /\ file = StillFile
    /\ payloadUploadSizes = EmptyObject
    /\ metaWriter = 0

NotSanitized == [returned |-> FALSE, config |-> NoConfig]

\* sanitizeResizeConfig is not being called
SanIdle ==
    /\ sanConfig = NoConfig
    /\ sanResult = NotSanitized

\* toBuffer has not been called on the wrapper
NotEncoded ==
    [called |-> FALSE, before |-> newSharpWrapper, result |-> NoBufferResult]

\* no wrapper is driven directly
WrapIdle ==
    /\ sharpInput = Dim(1, 1)
    /\ sharp = newSharpWrapper
    /\ sharpResult = NotEncoded

\* what a wrapper has returned from toBuffer: `fresh` while no other call
\* followed the last toBuffer, `repeated` when that toBuffer directly followed
\* another one, whose result is then `previous`
NoBuffers ==
    [fresh |-> FALSE, repeated |-> FALSE, result |-> NoBufferResult,
     previous |-> NoBufferResult]

NotCloned ==
    [made |-> FALSE, source |-> newSharpWrapper, cloned |-> newSharpWrapper]

\* no pair of wrappers is driven
OpsIdle ==
    /\ opsInput = Dim(1, 1)
    /\ opsWrappers = <<newSharpWrapper, newSharpWrapper>>
    /\ opsCloned = NotCloned

\* no wrapper is asked for a format
EncIdle ==
    /\ encInput = Dim(1, 1)
    /\ encWrapper = newSharpWrapper
    /\ encRequested = "none"
    /\ encBuffers = NoBuffers

\* cropImage is not being called
NoCropArgs ==
    [cropData |-> [x |-> 0, y |-> 0], dimensions |-> Dim(1, 1),
     widthInPixels |-> 1, heightInPixels |-> 1]

NotCropped ==
    [returned |-> FALSE, threw |-> FALSE, info |-> NoInfo, size |-> 0,
     region |-> NoRegion, cropped |-> NoRegion]

CropIdle ==
    /\ cropArgs = NoCropArgs
    /\ cropResult = NotCropped

\* upload edits without a focal point or a crop: {}
NoEdits == [focalPoint |-> null, crop |-> FALSE]

NoDocArgs ==
    [operation |-> "create", isDuplicating |-> FALSE, query |-> NoEdits,
     data |-> EmptyObject, originalDoc |-> null, hasFile |-> FALSE,
     focalPointEnabled |-> TRUE, hasSizes |-> FALSE]

NotResized == [called |-> FALSE, focalPoint |-> null, actions |-> <<>>]

\* generateFileData is not being called
DocIdle ==
    /\ docArgs = NoDocArgs
    /\ docPc = "off"
    /\ docUploadEdits = NoEdits
    /\ docFile = "none"
    /\ docSizes = NotResized
    /\ docData = EmptyObject

\* getSafeFileName is not being called
NameIdle ==
    /\ nameFiles = {}
    /\ nameDesired = <<>>
    /\ nameCounter = 0
    /\ nameSafe = <<>>
    /\ namePc = "off"

ExtIdle ==
    /\ OpsIdle
    /\ EncIdle
    /\ CropIdle
    /\ DocIdle
    /\ NameIdle

InitFn ==
    /\ fnArgs \in FnInputs
    /\ fnPc = "decide"
    /\ fnAction = "none"
    /\ fnFinal = NoInfo
    /\ fnEager = NoInfo
    /\ PipeIdle
    /\ SanIdle
    /\ WrapIdle
    /\ ExtIdle

FnDecide ==
    /\ fnPc = "decide"
    /\ fnAction' = getImageResizeAction(fnArgs.original, fnArgs.hasFocalPoint,
                                        fnArgs.config)
    /\ fnPc' = "calculate"
    /\ UNCHANGED <<fnArgs, fnFinal, fnEager, pipeVars, sanVars, wrapVars, extVars>>

FnCalculate ==
    /\ fnPc = "calculate"
    /\ fnFinal' = calculateResizeDimensions(fnArgs.original,
                                            resizeOptionsOf(fnArgs.config))
    /\ fnPc' = "eager"
    /\ UNCHANGED <<fnArgs, fnAction, fnEager, pipeVars, sanVars, wrapVars, extVars>>

FnEager ==
    /\ fnPc = "eager"
    /\ fnEager' = eagerResizeDimensions(fnArgs.original,
                                        resizeOptionsOf(fnArgs.config))
    /\ fnPc' = "done"
    /\ UNCHANGED <<fnArgs, fnAction, fnFinal, pipeVars, sanVars, wrapVars, extVars>>

NextFn == FnDecide \/ FnCalculate \/ FnEager

SpecFn == InitFn /\ [][NextFn]_vars

(***************************************************************************)
(* sanitizeResizeConfig, called on every spec object.                      *)
(***************************************************************************)
InitSan ==
    /\ sanConfig \in SanitizeConfigs
    /\ sanResult = NotSanitized
    /\ FnIdle
    /\ PipeIdle
    /\ WrapIdle
    /\ ExtIdle

Sanitize ==
    /\ ~sanResult.returned
    /\ sanResult' = [returned |-> TRUE, config |-> sanitizeResizeConfig(sanConfig)]
    /\ UNCHANGED <<sanConfig, fnVars, pipeVars, wrapVars, extVars>>

NextSan == Sanitize

SpecSan == InitSan /\ [][NextSan]_vars

(***************************************************************************)
(* A SharpWrapper driven directly: an optional resize, an optional extract *)
(* and one toBuffer.                                                       *)
(***************************************************************************)
InitWrap ==
    /\ sharpInput \in WrapInputs
    /\ sharp = newSharpWrapper
    /\ sharpResult = NotEncoded
    /\ FnIdle
    /\ PipeIdle
    /\ SanIdle
    /\ ExtIdle

WrapResize ==
    /\ ~sharpResult.called
    /\ ~sharp.resizeOptions.set
    /\ ~sharp.extractRegion.set
    /\ \E options \in WrapResizes : sharp' = resize(sharp, options)
    /\ UNCHANGED <<sharpInput, sharpResult, fnVars, pipeVars, sanVars, extVars>>

WrapExtract ==
    /\ ~sharpResult.called
    /\ ~sharp.extractRegion.set
    /\ \E region \in Regions : sharp' = extract(sharp, region)
    /\ UNCHANGED <<sharpInput, sharpResult, fnVars, pipeVars, sanVars, extVars>>

WrapToBuffer ==
    /\ ~sharpResult.called
    /\ \E bufferResult \in {toBuffer(sharp, sharpInput)} :
          /\ sharp' = bufferResult.this
          /\ sharpResult' = [called |-> TRUE, before |-> sharp,
                             result |-> bufferResult]
    /\ UNCHANGED <<sharpInput, fnVars, pipeVars, sanVars, extVars>>

NextWrap == WrapResize \/ WrapExtract \/ WrapToBuffer

SpecWrap == InitWrap /\ [][NextWrap]_vars

(***************************************************************************)
(* Two SharpWrappers, the second made by clone() of the first, driven by   *)
(* any sequence of resize, extract, toFormat and toBuffer calls.           *)
(***************************************************************************)
OpsInputs == {Dim(4, 2), Dim(2, 4)}

OpsResizes == {[width |-> 2, height |-> UNSET, fit |-> "undefined"]}

OpsRegions == {[left |-> 1, top |-> 0, width |-> 2, height |-> 1]}

OpsFormats == {"jpeg", "webp"}

\* the options handed to toFormat: a quality for JPEG, none otherwise
formatOptions(format) ==
    IF format \in {"jpeg", "jpg"} THEN NonNull([quality |-> 80]) ELSE null

InitOps ==
    /\ opsInput \in OpsInputs
    /\ opsWrappers = <<newSharpWrapper, newSharpWrapper>>
    /\ opsCloned = NotCloned
    /\ EncIdle
    /\ CropIdle
    /\ DocIdle
    /\ NameIdle
    /\ FnIdle
    /\ PipeIdle
    /\ SanIdle
    /\ WrapIdle

\* the wrappers that exist: the second one once clone() has returned it
OpsExists(i) == i = 1 \/ opsCloned.made

OpsResize(i) ==
    /\ OpsExists(i)
    /\ \E options \in OpsResizes :
          opsWrappers' = [opsWrappers EXCEPT ![i] = resize(@, options)]
    /\ UNCHANGED <<opsInput, opsCloned, opsRest, fnVars, pipeVars, sanVars,
                   wrapVars>>

OpsExtract(i) ==
    /\ OpsExists(i)
    /\ \E region \in OpsRegions :
          opsWrappers' = [opsWrappers EXCEPT ![i] = extract(@, region)]
    /\ UNCHANGED <<opsInput, opsCloned, opsRest, fnVars, pipeVars, sanVars,
                   wrapVars>>

OpsToFormat(i) ==
    /\ OpsExists(i)
    /\ \E format \in OpsFormats :
          opsWrappers' = [opsWrappers EXCEPT
                            ![i] = toFormat(@, format, formatOptions(format))]
    /\ UNCHANGED <<opsInput, opsCloned, opsRest, fnVars, pipeVars, sanVars,
                   wrapVars>>

OpsToBuffer(i) ==
    /\ OpsExists(i)
    /\ \E bufferResult \in {toBuffer(opsWrappers[i], opsInput)} :
          opsWrappers' = [opsWrappers EXCEPT ![i] = bufferResult.this]
    /\ UNCHANGED <<opsInput, opsCloned, opsRest, fnVars, pipeVars, sanVars,
                   wrapVars>>

\* const cloned = source.clone()
OpsClone ==
    /\ ~opsCloned.made
    /\ \E cloned \in {clone(opsWrappers[1])} :
          /\ opsWrappers' = <<opsWrappers[1], cloned>>
          /\ opsCloned' = [made |-> TRUE, source |-> opsWrappers[1],
                           cloned |-> cloned]
    /\ UNCHANGED <<opsInput, opsRest, fnVars, pipeVars, sanVars, wrapVars>>

NextOps ==
    \/ \E i \in 1..2 : OpsResize(i)
    \/ \E i \in 1..2 : OpsExtract(i)
    \/ \E i \in 1..2 : OpsToFormat(i)
    \/ \E i \in 1..2 : OpsToBuffer(i)
    \/ OpsClone

SpecOps == InitOps /\ [][NextOps]_vars

(***************************************************************************)
(* One SharpWrapper asked for an output format, with an optional resize    *)
(* and extract, and encoded once or several times.                         *)
(***************************************************************************)
EncInputs == {Dim(4, 2), Dim(2, 4), Dim(3, 3)}

\* a region inside the image and one beside it
EncRegions ==
    OpsRegions \cup {[left |-> 5, top |-> 0, width |-> 1, height |-> 1]}

InitEnc ==
    /\ encInput \in EncInputs
    /\ encWrapper = newSharpWrapper
    /\ encRequested = "none"
    /\ encBuffers = NoBuffers
    /\ OpsIdle
    /\ CropIdle
    /\ DocIdle
    /\ NameIdle
    /\ FnIdle
    /\ PipeIdle
    /\ SanIdle
    /\ WrapIdle

\* toFormat(format), or the method named after the format
EncToFormat ==
    /\ encRequested = "none"
    /\ ~encBuffers.fresh
    /\ \E format \in RequestedFormats :
          /\ encWrapper' = toFormat(encWrapper, format, formatOptions(format))
          /\ encRequested' = format
    /\ UNCHANGED <<encInput, encBuffers, encRest, fnVars, pipeVars, sanVars,
                   wrapVars>>

EncResize ==
    /\ \E options \in OpsResizes : encWrapper' = resize(encWrapper, options)
    /\ encBuffers' = NoBuffers
    /\ UNCHANGED <<encInput, encRequested, encRest, fnVars, pipeVars, sanVars,
                   wrapVars>>

EncExtract ==
    /\ \E region \in EncRegions : encWrapper' = extract(encWrapper, region)
    /\ encBuffers' = NoBuffers
    /\ UNCHANGED <<encInput, encRequested, encRest, fnVars, pipeVars, sanVars,
                   wrapVars>>

EncToBuffer ==
    /\ \E bufferResult \in {toBuffer(encWrapper, encInput)} :
          /\ encWrapper' = bufferResult.this
          /\ encBuffers' = [fresh |-> TRUE, repeated |-> encBuffers.fresh,
                            result |-> bufferResult,
                            previous |-> encBuffers.result]
    /\ UNCHANGED <<encInput, encRequested, encRest, fnVars, pipeVars, sanVars,
                   wrapVars>>

NextEnc == EncToFormat \/ EncResize \/ EncExtract \/ EncToBuffer

SpecEnc == InitEnc /\ [][NextEnc]_vars

(***************************************************************************)
(* cropImage, called on every request of the inputs.                       *)
(***************************************************************************)
\* utils/percent-to-pixel.ts: Math.floor((value / 100) * dimension); the
\* double product falls below an exact integer in the case FlMulBelow names
percentToPixelExact(value, dimension) == (value * dimension) \div 100

percentToPixel(value, dimension) ==
    IF /\ value > 0
       /\ (value * dimension) % 100 = 0
       /\ FlMulBelow(dimension, value, 100)
    THEN (value * dimension) \div 100 - 1
    ELSE (value * dimension) \div 100

\* formattedCropData of cropImage
formattedCropData(args) ==
    [left |-> percentToPixel(args.cropData.x, args.dimensions.width),
     top |-> percentToPixel(args.cropData.y, args.dimensions.height),
     width |-> args.widthInPixels, height |-> args.heightInPixels]

dimensionsChanged(args) ==
    \/ args.dimensions.width # args.widthInPixels
    \/ args.dimensions.height # args.heightInPixels

\* cropImage on a file whose image has the probed dimensions: the file as it
\* is when the requested size is the size of the image, otherwise what
\* extract and toBuffer make of the region
cropImage(args) ==
    IF ~dimensionsChanged(args)
    THEN [returned |-> TRUE, threw |-> FALSE, info |-> args.dimensions,
          size |-> byteLength(encodePng(args.dimensions.width,
                                        args.dimensions.height)),
          region |-> NoRegion, cropped |-> NoRegion]
    ELSE LET bufferResult ==
                 toBuffer(extract(newSharpWrapper, formattedCropData(args)),
                          args.dimensions)
         IN  [returned |-> ~bufferResult.threw, threw |-> bufferResult.threw,
              info |-> bufferResult.info, size |-> bufferResult.size,
              region |-> formattedCropData(args) @@ [set |-> TRUE],
              cropped |-> bufferResult.cropped]

CropPercents == {0, 10, 29, 50, 90}

CropInputs ==
    {[cropData |-> [x |-> x, y |-> y], dimensions |-> d,
      widthInPixels |-> w, heightInPixels |-> h] :
        x \in CropPercents, y \in {0, 50}, d \in {Dim(10, 6), Dim(100, 4)},
        w \in {2, 5, 10, 100}, h \in {2, 4, 6}}

InitCrop ==
    /\ cropArgs \in CropInputs
    /\ cropResult = NotCropped
    /\ OpsIdle
    /\ EncIdle
    /\ DocIdle
    /\ NameIdle
    /\ FnIdle
    /\ PipeIdle
    /\ SanIdle
    /\ WrapIdle

CropImage ==
    /\ ~cropResult.returned
    /\ ~cropResult.threw
    /\ cropResult' = cropImage(cropArgs)
    /\ UNCHANGED <<cropArgs, cropRest, fnVars, pipeVars, sanVars, wrapVars>>

NextCrop == CropImage

SpecCrop == InitCrop /\ [][NextCrop]_vars

(***************************************************************************)
(* generateFileData: the focal point it resolves from the request, the     *)
(* incoming data and the stored document, the decision to load the stored  *)
(* file again, the call of resizeAndTransformImageSizes and the document   *)
(* data it returns.  A document is a function from the keys it has to      *)
(* values that are a number or undefined (null); the upload is an image    *)
(* that can be resized, of 1000x500 pixels, and the collection declares at *)
(* most one image size, of 300x300.                                        *)
(***************************************************************************)
\* doc.key: undefined when the key is missing
get(doc, key) == IF key \in DOMAIN doc THEN doc[key] ELSE null

\* a number or undefined used as a condition: 0 and undefined are falsy
truthy(value) == value # null /\ value # NonNull(0)

\* a || b
orElse(a, b) == IF truthy(a) THEN a ELSE b

\* x && y both truthy
bothTruthy(x, y) == truthy(x) /\ truthy(y)

\* the stored document carries a focal point: 'focalX' in origDoc && ...
hasStoredFocalPoint(originalDoc) ==
    /\ originalDoc # null
    /\ \A doc \in originalDoc : {"focalX", "focalY"} \subseteq DOMAIN doc

\* the focal point of the incoming data when both coordinates are truthy,
\* the centre on create otherwise
focalPointFromData(args, uploadEdits) ==
    IF bothTruthy(get(args.data, "focalX"), get(args.data, "focalY"))
    THEN [uploadEdits EXCEPT
            !.focalPoint = NonNull([x |-> get(args.data, "focalX"),
                                    y |-> get(args.data, "focalY")])]
    ELSE IF args.operation = "create"
    THEN [uploadEdits EXCEPT
            !.focalPoint = NonNull([x |-> NonNull(50), y |-> NonNull(50)])]
    ELSE uploadEdits

\* the upload edits after the comparison with the stored document
inheritedEdits(args, uploadEdits) ==
    IF hasStoredFocalPoint(args.originalDoc) /\ args.isDuplicating
    THEN LET origDoc == CHOOSE doc \in args.originalDoc : TRUE
         IN  [uploadEdits EXCEPT
                !.focalPoint =
                    NonNull([x |-> orElse(get(args.data, "focalX"), origDoc.focalX),
                             y |-> orElse(get(args.data, "focalY"), origDoc.focalY)])]
    ELSE uploadEdits

\* the incoming data repeat the stored focal point
focalPointUnchanged(args) ==
    /\ hasStoredFocalPoint(args.originalDoc)
    /\ \A origDoc \in args.originalDoc :
          /\ get(args.data, "focalX") = origDoc.focalX
          /\ get(args.data, "focalY") = origDoc.focalY

parseUploadEditsKeepUnchanged(args) ==
    IF args.query.focalPoint # null THEN args.query
    ELSE focalPointFromData(args, inheritedEdits(args, args.query))

\* parseUploadEditsFromReqOrIncomingData
parseUploadEditsFromReqOrIncomingData(args) ==
    IF args.query.focalPoint # null THEN args.query
    ELSE IF focalPointUnchanged(args) THEN NoEdits
    ELSE focalPointFromData(args, inheritedEdits(args, args.query))

\* shouldReupload(uploadEdits, fileData): a crop, or a focal point that is
\* not the one of fileData
shouldReupload(uploadEdits, fileData) ==
    IF uploadEdits.crop THEN TRUE
    ELSE IF uploadEdits.focalPoint # null
    THEN \E focalPoint \in uploadEdits.focalPoint :
            ~(/\ {"focalX", "focalY"} \subseteq DOMAIN fileData
              /\ focalPoint.x = fileData.focalX
              /\ focalPoint.y = fileData.focalY)
    ELSE FALSE

\* isDuplicating ? originalDoc : data
incomingFileData(args) ==
    IF args.isDuplicating /\ args.originalDoc # null
    THEN CHOOSE doc \in args.originalDoc : TRUE
    ELSE args.data

\* isNumber(value) ? Math.round(value) : 50; the coordinates of the model
\* are integers, which Math.round returns as they are
roundedOr50(value) == IF value = null THEN 50 ELSE CHOOSE n \in value : TRUE

\* incomingFocalPoint of resizeAndTransformImageSizes
incomingFocalPointOf(uploadEdits) ==
    IF uploadEdits.focalPoint = null THEN [set |-> FALSE, x |-> 50, y |-> 50]
    ELSE LET focalPoint == CHOOSE f \in uploadEdits.focalPoint : TRUE
         IN  [set |-> TRUE, x |-> roundedOr50(focalPoint.x),
              y |-> roundedOr50(focalPoint.y)]

docDimensions == Dim(1000, 500)

docImageSizes ==
    <<ImageSize("a", 300, 300, "undefined", "undefined", "undefined", "undefined")>>

\* resizeAndTransformImageSizes as generateFileData sees it: the focal point
\* of the result and the action taken for each image size
resizeForDocument(args, uploadEdits) ==
    LET focal == incomingFocalPointOf(uploadEdits)
        sizes == IF args.hasSizes THEN docImageSizes ELSE <<>>
        result == defaultResult(args.focalPointEnabled, focal).focalPoint
    IN  [called |-> TRUE,
         focalPoint |-> IF result.set THEN NonNull([x |-> result.x, y |-> result.y])
                        ELSE null,
         actions |-> [i \in 1..Len(sizes) |->
                        getImageResizeAction(docDimensions, focal.set,
                                             sanitizeResizeConfig(sizes[i]))]]

\* fileData.focalX = focalPoint?.x, fileData.focalY = focalPoint?.y and
\* newData = { ...newData, ...fileData }
mergeFocalPoint(data, sizes) ==
    IF ~sizes.called THEN data
    ELSE IF sizes.focalPoint = null
    THEN [focalX |-> null, focalY |-> null] @@ data
    ELSE LET focalPoint == CHOOSE f \in sizes.focalPoint : TRUE
         IN  [focalX |-> NonNull(focalPoint.x), focalY |-> NonNull(focalPoint.y)]
                @@ data

DocFocal(x, y) == [focalX |-> NonNull(x), focalY |-> NonNull(y)]

\* documents: without a focal point, with one (a coordinate may be 0), with
\* one coordinate only, and with both keys holding undefined
Docs ==
    {EmptyObject, DocFocal(30, 70), DocFocal(50, 50), DocFocal(0, 30),
     [focalX |-> NonNull(30)], [focalX |-> null, focalY |-> null]}

QueryEdits ==
    {[focalPoint |-> f, crop |-> c] :
        f \in {null, NonNull([x |-> NonNull(0), y |-> NonNull(0)]),
               NonNull([x |-> NonNull(30), y |-> NonNull(70)])},
        c \in BOOLEAN}

DocInputs ==
    {[operation |-> op, isDuplicating |-> dup, query |-> q, data |-> d,
      originalDoc |-> o, hasFile |-> f, focalPointEnabled |-> e,
      hasSizes |-> s] :
        op \in {"create", "update"}, dup \in BOOLEAN, q \in QueryEdits,
        d \in Docs, o \in {null} \cup {NonNull(doc) : doc \in Docs},
        f \in BOOLEAN, e \in BOOLEAN, s \in BOOLEAN}

InitDoc ==
    /\ docArgs \in {a \in DocInputs :
                        (a.operation = "update" \/ a.isDuplicating)
                            <=> a.originalDoc # null}
    /\ docPc = "parse"
    /\ docUploadEdits = NoEdits
    /\ docFile = "none"
    /\ docSizes = NotResized
    /\ docData = EmptyObject
    /\ OpsIdle
    /\ EncIdle
    /\ CropIdle
    /\ NameIdle
    /\ FnIdle
    /\ PipeIdle
    /\ SanIdle
    /\ WrapIdle

DocParse ==
    /\ docPc = "parse"
    /\ docUploadEdits' = parseUploadEditsFromReqOrIncomingData(docArgs)
    /\ docPc' = "file"
    /\ UNCHANGED <<docArgs, docFile, docSizes, docData, docRest, fnVars,
                   pipeVars, sanVars, wrapVars>>

\* the file of the request, or the stored file loaded again when there is
\* none and the document is duplicated or the edits ask for it; without a
\* file the data are returned as they came
DocFile ==
    /\ docPc = "file"
    /\ \E loaded \in {IF docArgs.hasFile THEN "request"
                       ELSE IF \/ docArgs.isDuplicating
                               \/ shouldReupload(docUploadEdits,
                                                 incomingFileData(docArgs))
                       THEN "stored"
                       ELSE "none"} :
          /\ docFile' = loaded
          /\ docPc' = IF loaded = "none" THEN "done" ELSE "sizes"
          /\ docData' = IF loaded = "none" THEN docArgs.data ELSE docData
    /\ UNCHANGED <<docArgs, docUploadEdits, docSizes, docRest, fnVars, pipeVars,
                   sanVars, wrapVars>>

\* if (fileSupportsResize && (Array.isArray(imageSizes) || focalPointEnabled))
DocSizes ==
    /\ docPc = "sizes"
    /\ docSizes' = IF docArgs.hasSizes \/ docArgs.focalPointEnabled
                   THEN resizeForDocument(docArgs, docUploadEdits)
                   ELSE docSizes
    /\ docPc' = "merge"
    /\ UNCHANGED <<docArgs, docUploadEdits, docFile, docData, docRest, fnVars,
                   pipeVars, sanVars, wrapVars>>

DocMerge ==
    /\ docPc = "merge"
    /\ docData' = mergeFocalPoint(docArgs.data, docSizes)
    /\ docPc' = "done"
    /\ UNCHANGED <<docArgs, docUploadEdits, docFile, docSizes, docRest, fnVars,
                   pipeVars, sanVars, wrapVars>>

NextDoc == DocParse \/ DocFile \/ DocSizes \/ DocMerge

SpecDoc == InitDoc /\ [][NextDoc]_vars

(***************************************************************************)
(* getSafeFileName.  A file name is the sequence of its characters; the    *)
(* counter is written as one element.                                      *)
(***************************************************************************)
\* name.lastIndexOf('.') + 1: the position of the last dot, 0 without one
RECURSIVE lastDot(_, _)
lastDot(name, i) ==
    IF i = 0 THEN 0
    ELSE IF name[i] = "." THEN i
    ELSE lastDot(name, i - 1)

\* name.substring(0, name.lastIndexOf('.')) || name
baseName(name) ==
    IF lastDot(name, Len(name)) <= 1 THEN name
    ELSE SubSeq(name, 1, lastDot(name, Len(name)) - 1)

\* name.substring(name.lastIndexOf('.')) || '': substring takes the index -1
\* of a name without a dot as 0
extension(name) ==
    IF lastDot(name, Len(name)) = 0 THEN name
    ELSE SubSeq(name, lastDot(name, Len(name)), Len(name))

\* `${baseName}-${counter}${extension}`
numberedName(desiredFilename, counter) ==
    baseName(desiredFilename) \o <<"-", ToString(counter)>>
        \o extension(desiredFilename)

\* await fileExists(`${staticPath}/${fsSafeName}`)
fileExists(files, name) == name \in files

NameInputs ==
    {<<"a", ".", "p">>, <<"a">>, <<"a", "b">>, <<"a", ".", "b", ".", "p">>}

\* the names that may exist beside the desired one
NamePool(desired) ==
    {desired, numberedName(desired, 1), numberedName(desired, 2),
     baseName(desired) \o <<"-", "1">>}

InitName ==
    /\ nameDesired \in NameInputs
    /\ nameFiles \in SUBSET NamePool(nameDesired)
    /\ nameCounter = 0
    /\ nameSafe = nameDesired
    /\ namePc = "test"
    /\ OpsIdle
    /\ EncIdle
    /\ CropIdle
    /\ DocIdle
    /\ FnIdle
    /\ PipeIdle
    /\ SanIdle
    /\ WrapIdle

\* the loop test is true: the body runs
NameNext ==
    /\ namePc = "test"
    /\ fileExists(nameFiles, nameSafe)
    /\ nameCounter' = nameCounter + 1
    /\ nameSafe' = numberedName(nameDesired, nameCounter + 1)
    /\ UNCHANGED <<nameFiles, nameDesired, namePc, nameRest, fnVars, pipeVars,
                   sanVars, wrapVars>>

\* the loop test is false: return fsSafeName
NameReturn ==
    /\ namePc = "test"
    /\ ~fileExists(nameFiles, nameSafe)
    /\ namePc' = "returned"
    /\ UNCHANGED <<nameFiles, nameDesired, nameCounter, nameSafe, nameRest,
                   fnVars, pipeVars, sanVars, wrapVars>>

NextName == NameNext \/ NameReturn

SpecName == InitName /\ [][NextName]_vars

\* the loop is the only thing the call does: it keeps running
SpecNameFair == SpecName /\ WF_vars(NextName)

(***************************************************************************)
(* Properties of the pure functions (checked under SpecFn).                *)
(***************************************************************************)
fnOriginal == fnArgs.original
fnConfig == fnArgs.config
fnBothSet == fnConfig.width # UNSET /\ fnConfig.height # UNSET
fnFit == IF fnConfig.fit = "undefined" THEN "cover" ELSE fnConfig.fit
fnDecided == fnPc # "decide"
fnCalculated == fnPc \in {"eager", "done"}

\* n/d rounded to the nearest integer, a tie going either way
IsNearest(e, n, d) == 2 * e * d - 2 * n <= d /\ 2 * n - 2 * e * d <= d

\* C3: for every original image and every resize request the final width and
\* height computed by the resize dimension calculation (lazy and eager) are
\* both >= 1.
C3_FinalDimensionsPositive ==
    /\ fnCalculated => fnFinal.width >= 1 /\ fnFinal.height >= 1
    /\ fnPc = "done" => fnEager.width >= 1 /\ fnEager.height >= 1

\* the omission rule as the specification words it
OmitRule ==
    /\ fnConfig.withoutEnlargement = "undefined"
    /\ \/ /\ fnBothSet
          /\ fnOriginal.width < fnConfig.width
          /\ fnOriginal.height < fnConfig.height
       \/ /\ fnConfig.width # UNSET /\ fnConfig.height = UNSET
          /\ fnOriginal.width < fnConfig.width
       \/ /\ fnConfig.height # UNSET /\ fnConfig.width = UNSET
          /\ fnOriginal.height < fnConfig.height

\* C4: getImageResizeAction returns omit exactly when withoutEnlargement is
\* unset and either both target axes are set and the original is smaller
\* along both, or exactly one axis is set and the original is smaller along
\* it; a spec with withoutEnlargement true or false is never omitted.
C4_OmitExactly ==
    fnDecided =>
        /\ (fnAction = "omit") <=> OmitRule
        /\ fnConfig.withoutEnlargement # "undefined" => fnAction # "omit"

\* C4 witness: 100x100 with target 200x200, withoutEnlargement unset, omitted
C4_Witness ==
    /\ fnDecided
    /\ fnOriginal = Dim(100, 100)
    /\ fnConfig.width = 200 /\ fnConfig.height = 200
    /\ fnConfig.withoutEnlargement = "undefined"
    /\ fnAction = "omit"

\* an unset target axis compared as 0: that axis never counts as smaller
SmallerAlongAnAxis ==
    \/ (fnConfig.width # UNSET /\ fnOriginal.width < fnConfig.width)
    \/ (fnConfig.height # UNSET /\ fnOriginal.height < fnConfig.height)

\* target aspect ratio (a missing axis replaced by 1) differs from the original's
AspectDiffers ==
    (IF fnConfig.width # UNSET THEN fnConfig.width ELSE 1) * fnOriginal.height
        # fnOriginal.width * (IF fnConfig.height # UNSET THEN fnConfig.height ELSE 1)

FocalRule ==
    /\ fnArgs.hasFocalPoint
    /\ ~OmitRule
    /\ fnConfig.fit \notin {"contain", "inside"}
    /\ (fnConfig.width # UNSET \/ fnConfig.height # UNSET)
    /\ AspectDiffers
    /\ ~(fnConfig.withoutEnlargement = "true" /\ SmallerAlongAnAxis)
    /\ ~(fnConfig.withoutReduction = "true" /\ ~SmallerAlongAnAxis)

\* C5: getImageResizeAction returns resizeWithFocalPoint exactly when
\* hasFocalPoint is true and no earlier rule matches; every other non-omitted
\* case is resize.
C5_FocalExactly ==
    fnDecided =>
        /\ (fnAction = "resizeWithFocalPoint") <=> FocalRule
        /\ (~OmitRule /\ ~FocalRule) => fnAction = "resize"

\* C5 witness: 1600x900 with target 800x450 and a focal point is resize
C5_Witness ==
    /\ fnDecided
    /\ fnOriginal = Dim(1600, 900)
    /\ fnConfig.width = 800 /\ fnConfig.height = 450
    /\ fnArgs.hasFocalPoint
    /\ fnAction = "resize"

fnContainCase == fnCalculated /\ fnBothSet /\ fnFit \in {"contain", "inside"}

\* C7 as claimed: for contain / inside with both axes set one axis equals its
\* target and the other is the round-half-up of the exact aspect-preserving
\* value, and for inside both dimensions are <= their targets.
C7_ContainExactRounding ==
    fnContainCase =>
        /\ \/ /\ fnFinal.width = fnConfig.width
              /\ fnFinal.height =
                    RoundHalfUp(fnConfig.width * fnOriginal.height, fnOriginal.width)
           \/ /\ fnFinal.height = fnConfig.height
              /\ fnFinal.width =
                    RoundHalfUp(fnConfig.height * fnOriginal.width, fnOriginal.height)
        /\ fnFit = "inside" =>
              fnFinal.width <= fnConfig.width /\ fnFinal.height <= fnConfig.height

\* C7 amended: for contain / inside with both axes set one axis equals its
\* target and the other is the exact aspect-preserving value rounded to the
\* nearest integer (a half-integer may round down as well as up), and for
\* inside both dimensions are <= their targets.
C7_ContainNearest ==
    fnContainCase =>
        /\ \/ /\ fnFinal.width = fnConfig.width
              /\ IsNearest(fnFinal.height,
                           fnConfig.width * fnOriginal.height, fnOriginal.width)
           \/ /\ fnFinal.height = fnConfig.height
              /\ IsNearest(fnFinal.width,
                           fnConfig.height * fnOriginal.width, fnOriginal.height)
        /\ fnFit = "inside" =>
              fnFinal.width <= fnConfig.width /\ fnFinal.height <= fnConfig.height

\* C7 witness: 18x7 inside 9x4 gives 9x3, the exact height being 3.5
C7_Witness ==
    /\ fnContainCase
    /\ fnFit = "inside"
    /\ fnOriginal = Dim(18, 7)
    /\ fnFinal = Dim(9, 3)

fnCoverCase == fnCalculated /\ fnBothSet /\ fnFit = "cover"

fnWider == fnOriginal.width * fnConfig.height > fnConfig.width * fnOriginal.height

\* C8 as claimed: for cover with both axes set the result covers the target
\* box, height = targetHeight when the original aspect ratio is greater than
\* the target's and width = targetWidth otherwise, the other axis being the
\* round-half-up of the aspect-preserving value.
C8_CoverExactRounding ==
    fnCoverCase =>
        /\ fnFinal.width >= fnConfig.width /\ fnFinal.height >= fnConfig.height
        /\ fnWider =>
              /\ fnFinal.height = fnConfig.height
              /\ fnFinal.width =
                    RoundHalfUp(fnConfig.height * fnOriginal.width, fnOriginal.height)
        /\ ~fnWider =>
              /\ fnFinal.width = fnConfig.width
              /\ fnFinal.height =
                    RoundHalfUp(fnConfig.width * fnOriginal.height, fnOriginal.width)

\* C8 amended: as claimed, the other axis being the aspect-preserving value
\* rounded to the nearest integer (a half-integer may round down as well as up).
C8_CoverNearest ==
    fnCoverCase =>
        /\ fnFinal.width >= fnConfig.width /\ fnFinal.height >= fnConfig.height
        /\ fnWider =>
              /\ fnFinal.height = fnConfig.height
              /\ IsNearest(fnFinal.width,
                           fnConfig.height * fnOriginal.width, fnOriginal.height)
        /\ ~fnWider =>
              /\ fnFinal.width = fnConfig.width
              /\ IsNearest(fnFinal.height,
                           fnConfig.width * fnOriginal.height, fnOriginal.width)

\* C8 witness: 18x7 covering 9x3 gives 9x3, the exact height being 3.5
C8_Witness ==
    /\ fnCoverCase
    /\ fnOriginal = Dim(18, 7)
    /\ fnConfig.width = 9 /\ fnConfig.height = 3
    /\ fnFinal = Dim(9, 3)

\* C9: for outside with both axes set both resulting dimensions are >= their
\* targets.
C9_OutsideCovers ==
    (fnCalculated /\ fnBothSet /\ fnFit = "outside") =>
        fnFinal.width >= fnConfig.width /\ fnFinal.height >= fnConfig.height

fnFillCase == fnCalculated /\ fnBothSet /\ fnFit = "fill"

\* C10: for fill with both axes set the resulting dimensions are exactly
\* (targetWidth, targetHeight), whatever the original's aspect ratio.
C10_FillExact ==
    fnFillCase => fnFinal = Dim(fnConfig.width, fnConfig.height)

\* C10 witness: a fill whose target is not square and differs from the
\* original's aspect ratio
C10_Witness ==
    /\ fnFillCase
    /\ fnConfig.width # fnConfig.height
    /\ fnConfig.width * fnOriginal.height # fnOriginal.width * fnConfig.height
    /\ fnFinal = Dim(fnConfig.width, fnConfig.height)

fnSingleAxisCase == fnCalculated /\ ~fnBothSet

\* the lazy calculation repeated with the fit replaced by f
fnFinalWithFit(f) ==
    calculateResizeDimensions(fnOriginal,
                              [resizeOptionsOf(fnConfig) EXCEPT !.fit = f])

\* C11 as claimed: with only targetWidth set the result is (targetWidth,
\* round-half-up(targetWidth * height / width)), with only targetHeight set
\* it is (round-half-up(targetHeight * width / height), targetHeight), with
\* neither set it is the original; the fit has no influence.
C11_SingleAxisExactRounding ==
    fnSingleAxisCase =>
        /\ fnConfig.width # UNSET =>
              /\ fnFinal.width = fnConfig.width
              /\ fnFinal.height =
                    RoundHalfUp(fnConfig.width * fnOriginal.height, fnOriginal.width)
        /\ fnConfig.height # UNSET =>
              /\ fnFinal.height = fnConfig.height
              /\ fnFinal.width =
                    RoundHalfUp(fnConfig.height * fnOriginal.width, fnOriginal.height)
        /\ fnConfig.width = UNSET /\ fnConfig.height = UNSET => fnFinal = fnOriginal
        /\ \A f \in Fits \cup {"undefined"} : fnFinalWithFit(f) = fnFinal

\* C11 amended: the scaled axis is the exact aspect-preserving value rounded
\* to the nearest integer (a half-integer may round down as well as up); the
\* given axis is kept, no axis given returns the original, and the fit has no
\* influence.
C11_SingleAxisNearest ==
    fnSingleAxisCase =>
        /\ fnConfig.width # UNSET =>
              /\ fnFinal.width = fnConfig.width
              /\ IsNearest(fnFinal.height,
                           fnConfig.width * fnOriginal.height, fnOriginal.width)
        /\ fnConfig.height # UNSET =>
              /\ fnFinal.height = fnConfig.height
              /\ IsNearest(fnFinal.width,
                           fnConfig.height * fnOriginal.width, fnOriginal.height)
        /\ fnConfig.width = UNSET /\ fnConfig.height = UNSET => fnFinal = fnOriginal
        /\ \A f \in Fits \cup {"undefined"} : fnFinalWithFit(f) = fnFinal

\* C11 witness: 18x7 with only width 9 gives 9x3, the exact height being 3.5
C11_Witness ==
    /\ fnSingleAxisCase
    /\ fnOriginal = Dim(18, 7)
    /\ fnConfig.width = 9
    /\ fnFinal = Dim(9, 3)

ResizeActions == {"omit", "resize", "resizeWithFocalPoint"}

sharpBase == newSharpWrapper

\* originalImageMeta = await sharpBase.metadata()
originalImageMeta == metadata(dimensions)

InitPipe ==
    /\ \E input \in PipeInputs :
          /\ dimensions = input.dimensions
          /\ incomingFocalPoint = input.focalPoint
          /\ imageSizes = input.imageSizes
          /\ file = input.file
          /\ resizeImageMeta =
                [height |-> extractHeightFromImage(metadata(input.dimensions)),
                 width |-> metadata(input.dimensions).width]
          /\ tasks = [i \in 1..Len(input.imageSizes) |-> IdleTask]
    /\ started = 0
    /\ outcome = NoOutcome
    /\ payloadUploadSizes = EmptyObject
    /\ metaWriter = 0
    /\ FnIdle
    /\ SanIdle
    /\ WrapIdle
    /\ ExtIdle

mapReturnedAlways == TRUE

\* every continuation of a task runs after imageSizes.map has called every
\* callback up to its first await
mapReturned == started = Len(imageSizes)

\* Promise.all settles with the first rejection it is handed
firstRejection(current, i, error) ==
    IF current.firstFailure = 0
    THEN [current EXCEPT !.firstFailure = i, !.error = error]
    ELSE current

\* the callback of imageSizes.map up to its first await: sanitize, decide,
\* and for an omitted variant return its empty result; else clone, and on the
\* focal-point path resolve the target and store the pre-scale resize
Start(i) ==
    /\ i = started + 1
    /\ i <= Len(imageSizes)
    /\ started' = i
    /\ LET imageResizeConfig == imageSizes[i]
           sanitizedConfig == sanitizeResizeConfig(imageResizeConfig)
           resizeAction == getImageResizeAction(dimensions, incomingFocalPoint.set,
                                                sanitizedConfig)
           imageToResize == clone(sharpBase)
           axes == resolvedAxes(imageResizeConfig, dimensions)
           target == resolveTargetFrom(axes, resizeImageMeta)
       IN  tasks' = [tasks EXCEPT ![i] =
              IF resizeAction = "omit"
              THEN [@ EXCEPT !.pc = "done", !.action = resizeAction,
                             !.result = createResult([name |-> imageResizeConfig.name])]
              ELSE IF resizeAction = "resizeWithFocalPoint"
              THEN [@ EXCEPT !.pc = "prescale", !.action = resizeAction,
                             !.target = target,
                             !.calls = {"clone", "resize"},
                             !.metaFrom = IF readsResizeImageMeta(axes)
                                          THEN {metaWriter} ELSE {},
                             !.resized = resize(imageToResize,
                                                prescaleOptions(target, dimensions))]
              ELSE [@ EXCEPT !.pc = "encode", !.action = resizeAction,
                             !.calls = {"clone", "resize"},
                             !.resized = resize(imageToResize,
                                                resizeOptionsOf(sanitizedConfig))]]
    /\ UNCHANGED <<dimensions, incomingFocalPoint, imageSizes, resizeImageMeta,
                   outcome, file, payloadUploadSizes, metaWriter, fnVars, sanVars,
                   wrapVars, extVars>>

\* the first toBuffer of the focal-point path and the code up to the next
\* await: resizeImageMeta is overwritten with the encoded size, the crop
\* window is computed from it and stored by extract
Prescale(i) ==
    /\ mapReturned
    /\ i \in 1..Len(imageSizes)
    /\ tasks[i].pc = "prescale"
    /\ \E bufferResult \in {toBuffer(tasks[i].resized, dimensions)} :
          LET info == bufferResult.info
              meta == [height |-> extractHeightFromImage(
                                      [originalImageMeta EXCEPT !.height = info.height]),
                       width |-> info.width]
          IN  IF bufferResult.threw
              THEN /\ tasks' = [tasks EXCEPT ![i] =
                          [@ EXCEPT !.pc = "failed", !.resized = bufferResult.this,
                                    !.calls = @ \cup {"toBuffer"}]]
                   /\ outcome' = firstRejection(outcome, i, bufferResult.error)
                   /\ UNCHANGED <<resizeImageMeta, metaWriter>>
              ELSE \E region \in {focalRegion(meta, incomingFocalPoint, tasks[i].target)} :
                   /\ resizeImageMeta' = meta
                   /\ metaWriter' = i
                   /\ tasks' = [tasks EXCEPT ![i] =
                          [@ EXCEPT !.pc = "encode", !.prescaleInfo = info,
                                    !.calls = @ \cup {"toBuffer", "extract"},
                                    !.metaFrom = @ \cup {i},
                                    !.region = extract(bufferResult.this, region).extractRegion,
                                    !.resized = extract(bufferResult.this, region)]]
                   /\ UNCHANGED outcome
    /\ UNCHANGED <<dimensions, incomingFocalPoint, imageSizes, started, file,
                   payloadUploadSizes, fnVars, sanVars, wrapVars, extVars>>

\* the final toBuffer, the write to req.payloadUploadSizes, the naming and
\* the creation of the variant's result
Encode(i) ==
    /\ mapReturned
    /\ i \in 1..Len(imageSizes)
    /\ tasks[i].pc = "encode"
    /\ \E bufferResult \in {toBuffer(tasks[i].resized, dimensions)} :
          IF bufferResult.threw
          THEN /\ tasks' = [tasks EXCEPT ![i] =
                      [@ EXCEPT !.pc = "failed", !.resized = bufferResult.this,
                                !.calls = @ \cup {"toBuffer"}]]
               /\ outcome' = firstRejection(outcome, i, bufferResult.error)
               /\ UNCHANGED payloadUploadSizes
          ELSE LET bufferData == bufferResult.data
                   bufferInfo == bufferResult.info
                   mimeInfo == fileTypeFromBuffer(bufferData)
                   imageNameWithDimensions ==
                       createImageName(
                           [extension |-> mimeInfo.ext,
                            height |-> extractHeightFromImage(
                                [originalImageMeta EXCEPT !.height = bufferInfo.height]),
                            outputImageName |-> sanitizedImage.name,
                            width |-> bufferInfo.width])
                   imagePath == staticPath \o "/" \o imageNameWithDimensions
               IN  /\ payloadUploadSizes' =
                          (imageSizes[i].name :> bufferData) @@ payloadUploadSizes
                   /\ tasks' = [tasks EXCEPT ![i] =
                          [@ EXCEPT !.pc = "done", !.resized = bufferResult.this,
                                    !.calls = @ \cup {"toBuffer"},
                                    !.wrote = TRUE,
                                    !.croppedFrom = bufferResult.croppedFrom,
                                    !.info = bufferInfo,
                                    !.size = bufferResult.size,
                                    !.result = createResult(
                                        [name |-> imageSizes[i].name,
                                         filename |-> NonNull(imageNameWithDimensions),
                                         filesize |-> NonNull(bufferResult.size),
                                         height |-> NonNull(resultHeight(
                                             file, originalImageMeta, bufferInfo.height)),
                                         mimeType |-> NonNull(mimeInfo.mime),
                                         sizesToSave |-> <<[buffer |-> bufferData,
                                                            path |-> imagePath]>>,
                                         width |-> NonNull(bufferInfo.width)])]]
                   /\ UNCHANGED outcome
    /\ UNCHANGED <<dimensions, incomingFocalPoint, imageSizes, resizeImageMeta,
                   started, file, metaWriter, fnVars, sanVars, wrapVars, extVars>>

\* Promise.all resolves with the results in list order and results.reduce
\* merges them into the returned object; the collection of a pipeline run
\* leaves upload.focalPoint at its default, true
Aggregate ==
    /\ outcome.status = "pending"
    /\ mapReturned
    /\ \A i \in 1..Len(imageSizes) : tasks[i].pc = "done"
    /\ outcome' = [outcome EXCEPT
                      !.status = "resolved",
                      !.result = reduceResults(
                                     [i \in 1..Len(imageSizes) |-> tasks[i].result],
                                     defaultResult(TRUE, incomingFocalPoint))]
    /\ UNCHANGED <<dimensions, incomingFocalPoint, imageSizes, resizeImageMeta,
                   started, tasks, file, payloadUploadSizes, metaWriter, fnVars,
                   sanVars, wrapVars, extVars>>

\* the caller's await throws the first rejection; the other tasks keep running
Reject ==
    /\ outcome.status = "pending"
    /\ outcome.firstFailure # 0
    /\ outcome' = [outcome EXCEPT !.status = "rejected"]
    /\ UNCHANGED <<dimensions, incomingFocalPoint, imageSizes, resizeImageMeta,
                   started, tasks, file, payloadUploadSizes, metaWriter, fnVars,
                   sanVars, wrapVars, extVars>>

Next ==
    \/ \E i \in 1..2 : Start(i)
    \/ \E i \in 1..2 : Prescale(i)
    \/ \E i \in 1..2 : Encode(i)
    \/ Aggregate
    \/ Reject

Init == InitPipe

Spec == Init /\ [][Next]_vars

(***************************************************************************)
(* Properties of the pipeline (checked under Spec).                        *)
(***************************************************************************)
TaskIds == 1..Len(imageSizes)

\* task i took the focal-point path and its crop window has been computed
Planned(i) ==
    /\ tasks[i].action = "resizeWithFocalPoint"
    /\ tasks[i].pc \in {"encode", "done", "failed"}
    /\ tasks[i].region.set

\* task i took the focal-point path and its final encode succeeded
FocalDone(i) ==
    tasks[i].action = "resizeWithFocalPoint" /\ tasks[i].pc = "done"

\* C1: the crop window computed on the focal-point path lies inside the
\* pre-scaled image: 0 <= left, 0 <= top, left + width <= prescaleWidth and
\* top + height <= prescaleHeight, for every focal point, in or out of 0..100.
C1_WindowInsidePrescale ==
    \A i \in TaskIds : Planned(i) =>
        /\ 0 <= tasks[i].region.left
        /\ 0 <= tasks[i].region.top
        /\ tasks[i].region.left + tasks[i].region.width <= tasks[i].prescaleInfo.width
        /\ tasks[i].region.top + tasks[i].region.height <= tasks[i].prescaleInfo.height

\* C1 witness: a focal point right of the image whose window is pushed back
\* to the right edge of a wider pre-scaled image
C1_Witness ==
    \E i \in TaskIds :
        /\ Planned(i)
        /\ incomingFocalPoint.x > 100
        /\ tasks[i].region.left > 0
        /\ tasks[i].region.left + tasks[i].region.width = tasks[i].prescaleInfo.width

\* C2: on the focal-point path the crop is performed on an image that has
\* exactly the pre-scale dimensions read back from the first encode, and the
\* final encoded output has the resolved target width and height.
C2_CropOnPrescaledImage ==
    \A i \in TaskIds : FocalDone(i) =>
        /\ tasks[i].croppedFrom = tasks[i].prescaleInfo
        /\ tasks[i].info = tasks[i].target

\* floor of center - target / 2 with the claimed clamping, in exact arithmetic
ExactBound(size, percent, target) ==
    IF 2 * size * percent + 100 * target > 200 * size
    THEN Max(0, size - target)
    ELSE IF 2 * size * percent - 100 * target < 0 THEN 0
    ELSE (2 * size * percent - 100 * target) \div 200

\* the bound is the exact floor, or one below it when the exact bound is a
\* positive integer
NearBound(bound, size, percent, target) ==
    \/ bound = ExactBound(size, percent, target)
    \/ /\ 2 * size * percent + 100 * target <= 200 * size
       /\ 2 * size * percent - 100 * target > 0
       /\ (2 * size * percent - 100 * target) % 200 = 0
       /\ bound = ExactBound(size, percent, target) - 1

\* the target of variant i with a missing axis resolved by round-half-up
ExactTarget(i) ==
    [width |-> IF imageSizes[i].width # UNSET THEN imageSizes[i].width
               ELSE RoundHalfUp(imageSizes[i].height * dimensions.width,
                                dimensions.height),
     height |-> IF imageSizes[i].height # UNSET THEN imageSizes[i].height
                ELSE RoundHalfUp(imageSizes[i].width * dimensions.height,
                                 dimensions.width)]

\* a resolved axis: the given value, else the aspect-preserving value rounded
\* to the nearest integer, else (when that is 0) the original's dimension
ResolvedAxis(value, given, n, d, original) ==
    IF given # UNSET THEN value = given
    ELSE \/ value >= 1 /\ IsNearest(value, n, d)
         \/ IsNearest(0, n, d) /\ value = original

ExampleRun ==
    /\ dimensions = Dim(1000, 500)
    /\ incomingFocalPoint = FocalPoint(80, 50)
    /\ imageSizes[1].width = 300 /\ imageSizes[1].height = 300

ExampleWindow ==
    (ExampleRun /\ Planned(1)) =>
        /\ tasks[1].prescaleInfo = Dim(600, 300)
        /\ tasks[1].region =
              [set |-> TRUE, left |-> 300, top |-> 0, width |-> 300, height |-> 300]

\* C6 as claimed: the window is {floor(L), floor(T), targetWidth, targetHeight}
\* with L and T the clamped center - target / 2, a missing target axis being
\* the round-half-up of the aspect-preserving value.
C6_WindowExact ==
    /\ \A i \in TaskIds : Planned(i) =>
          /\ tasks[i].region.width = ExactTarget(i).width
          /\ tasks[i].region.height = ExactTarget(i).height
          /\ tasks[i].region.left =
                ExactBound(tasks[i].prescaleInfo.width, incomingFocalPoint.x,
                           ExactTarget(i).width)
          /\ tasks[i].region.top =
                ExactBound(tasks[i].prescaleInfo.height, incomingFocalPoint.y,
                           ExactTarget(i).height)
    /\ ExampleWindow

\* C6 amended: the window is {left, top, targetWidth, targetHeight} where left
\* is floor(L), or L - 1 when the exact L is a positive integer, L being the
\* clamped center - target / 2 (top likewise); a missing target axis is the
\* aspect-preserving value rounded to the nearest integer and, when that is 0,
\* the original image's dimension.
C6_WindowNear ==
    /\ \A i \in TaskIds : Planned(i) =>
          /\ ResolvedAxis(tasks[i].region.width, imageSizes[i].width,
                          imageSizes[i].height * dimensions.width,
                          dimensions.height, dimensions.width)
          /\ ResolvedAxis(tasks[i].region.height, imageSizes[i].height,
                          imageSizes[i].width * dimensions.height,
                          dimensions.width, dimensions.height)
          /\ NearBound(tasks[i].region.left, tasks[i].prescaleInfo.width,
                       incomingFocalPoint.x, tasks[i].region.width)
          /\ NearBound(tasks[i].region.top, tasks[i].prescaleInfo.height,
                       incomingFocalPoint.y, tasks[i].region.height)
    /\ ExampleWindow

\* C6 witness: 1000x500, target 300x300, focal point (80, 50): window at 300, 0
C6_Witness ==
    /\ ExampleRun
    /\ Planned(1)
    /\ tasks[1].region.left = 300 /\ tasks[1].region.top = 0

\* the names of the configured variants are pairwise different
UniqueNames ==
    \A i \in TaskIds : \A j \in TaskIds :
        imageSizes[i].name = imageSizes[j].name => i = j

\* a FileSize whose five fields are null
NullFileSize ==
    [filename |-> null, filesize |-> null, height |-> null, mimeType |-> null,
     width |-> null]

\* C13: a variant decided as omit yields a result entry under its name whose
\* filename, filesize, width, height and mimeType are all null and no
\* (buffer, path) pair; its task writes nothing to req.payloadUploadSizes and
\* calls neither clone, resize, extract nor toBuffer on the wrapper.
C13_OmittedVariantEmpty ==
    \A i \in TaskIds : tasks[i].action = "omit" =>
        /\ tasks[i].result.sizeData = imageSizes[i].name :> NullFileSize
        /\ tasks[i].result.sizesToSave = <<>>
        /\ ~tasks[i].wrote
        /\ UniqueNames => imageSizes[i].name \notin DOMAIN payloadUploadSizes
        /\ tasks[i].calls = {}
        /\ tasks[i].resized = newSharpWrapper
        /\ (outcome.status = "resolved" /\ UniqueNames) =>
              outcome.result.sizeData[imageSizes[i].name] = NullFileSize

\* C13 witness: a run that resolved with an omitted variant next to an
\* encoded one
C13_Witness ==
    /\ outcome.status = "resolved"
    /\ UniqueNames
    /\ \E i \in TaskIds : tasks[i].action = "omit"
    /\ \E j \in TaskIds : tasks[j].action = "resizeWithFocalPoint" /\ tasks[j].wrote

\* resizeImageMeta as a run starts
initialResizeImageMeta ==
    [height |-> extractHeightFromImage(originalImageMeta),
     width |-> originalImageMeta.width]

\* what variant i computes when it is the only variant of the list: the
\* resolved target, the first toBuffer, the crop window and the final toBuffer
\* of the focal-point path, and the single toBuffer of the resize path
soloTarget(i) == resolveTarget(imageSizes[i], dimensions, initialResizeImageMeta)

soloPrescale(i) ==
    toBuffer(resize(clone(sharpBase), prescaleOptions(soloTarget(i), dimensions)),
             dimensions)

soloRegion(i) ==
    focalRegion([height |-> extractHeightFromImage(
                     [originalImageMeta EXCEPT !.height = soloPrescale(i).info.height]),
                 width |-> soloPrescale(i).info.width],
                incomingFocalPoint, soloTarget(i))

soloFocalEncode(i) ==
    toBuffer(extract(soloPrescale(i).this, soloRegion(i)), dimensions)

soloResizeEncode(i) ==
    toBuffer(resize(clone(sharpBase),
                    resizeOptionsOf(sanitizeResizeConfig(imageSizes[i]))),
             dimensions)

soloEncode(i) ==
    IF tasks[i].action = "resizeWithFocalPoint"
    THEN soloFocalEncode(i) ELSE soloResizeEncode(i)

\* C14: under every interleaving of the tasks the resolved target, the
\* pre-scale dimensions, the crop window and the reported width and height of
\* a variant are those it computes as the only variant of the list, a failure
\* included, and no task reads a value of resizeImageMeta that another
\* variant's task wrote.
C14_VariantsIsolated ==
    \A i \in TaskIds :
        /\ tasks[i].metaFrom \subseteq {0, i}
        /\ tasks[i].action = "resizeWithFocalPoint" =>
              /\ tasks[i].target = soloTarget(i)
              /\ Planned(i) =>
                    /\ tasks[i].prescaleInfo = soloPrescale(i).info
                    /\ tasks[i].region = extract(newSharpWrapper,
                                                 soloRegion(i)).extractRegion
              /\ (tasks[i].pc = "failed" /\ ~tasks[i].region.set) =>
                    soloPrescale(i).threw
              /\ (tasks[i].pc = "failed" /\ tasks[i].region.set) =>
                    soloFocalEncode(i).threw
        /\ (tasks[i].action = "resize" /\ tasks[i].pc = "failed") =>
              soloResizeEncode(i).threw
        /\ (tasks[i].action # "omit" /\ tasks[i].pc = "done") =>
              /\ ~soloEncode(i).threw
              /\ tasks[i].info = soloEncode(i).info
              /\ tasks[i].croppedFrom = soloEncode(i).croppedFrom
              /\ tasks[i].result.sizeData[imageSizes[i].name].width =
                    NonNull(soloEncode(i).info.width)
              /\ tasks[i].result.sizeData[imageSizes[i].name].height =
                    NonNull(soloEncode(i).info.height)

\* C14 witness: a second focal-point variant whose missing axis rounds to 0
\* and is read from resizeImageMeta, encoded after the first variant's task
\* has overwritten the record with other dimensions
C14_Witness ==
    /\ Len(imageSizes) = 2
    /\ tasks[2].action = "resizeWithFocalPoint"
    /\ tasks[2].metaFrom = {0, 2}
    /\ tasks[2].pc = "done"
    /\ tasks[1].action = "resizeWithFocalPoint"
    /\ tasks[1].pc = "done"
    /\ tasks[1].prescaleInfo # initialResizeImageMeta

\* the indexes of the variants that were not omitted, in configuration order
KeptVariants ==
    SelectSeq([i \in 1..Len(imageSizes) |-> i],
              LAMBDA i : tasks[i].action # "omit")

\* C15: after a successful run over uniquely named variants sizeData has
\* exactly one entry per configured name (the all-null entry for an omitted
\* variant, the task's own entry otherwise) and sizesToSave holds exactly the
\* one (buffer, path) pair of each non-omitted variant, in configuration
\* order, whatever the order in which the tasks completed.
C15_OneEntryPerVariant ==
    (outcome.status = "resolved" /\ UniqueNames) =>
        /\ DOMAIN outcome.result.sizeData = {imageSizes[i].name : i \in TaskIds}
        /\ \A i \in TaskIds :
              /\ outcome.result.sizeData[imageSizes[i].name] =
                    tasks[i].result.sizeData[imageSizes[i].name]
              /\ (outcome.result.sizeData[imageSizes[i].name] = NullFileSize)
                    <=> (tasks[i].action = "omit")
              /\ Len(tasks[i].result.sizesToSave) =
                    IF tasks[i].action = "omit" THEN 0 ELSE 1
        /\ Len(outcome.result.sizesToSave) = Len(KeptVariants)
        /\ \A k \in 1..Len(KeptVariants) :
              /\ outcome.result.sizesToSave[k] =
                    tasks[KeptVariants[k]].result.sizesToSave[1]
              /\ outcome.result.sizesToSave[k].buffer =
                    encodePng(tasks[KeptVariants[k]].info.width,
                              tasks[KeptVariants[k]].info.height)

\* C15 witness: two encoded variants of different sizes, merged in list order
C15_Witness ==
    /\ outcome.status = "resolved"
    /\ UniqueNames
    /\ Len(outcome.result.sizesToSave) = 2
    /\ outcome.result.sizesToSave[1] # outcome.result.sizesToSave[2]

\* C16: when a variant fails the run fails as a whole with the first variant
\* failure, returns no sizeData and no sizesToSave, and the error it reports
\* carries the name of the failing variant's spec.
C16_FailFastWithName ==
    outcome.status = "rejected" =>
        /\ outcome.firstFailure \in TaskIds
        /\ tasks[outcome.firstFailure].pc = "failed"
        /\ outcome.result = NoResult
        /\ "name" \in DOMAIN outcome.error
        /\ outcome.error.name = imageSizes[outcome.firstFailure].name

\* variant i was encoded and its result created
Encoded(i) == tasks[i].action # "omit" /\ tasks[i].pc = "done"

ExpectedName(base, width, height, ext) ==
    base \o "-" \o ToString(width) \o "x" \o ToString(height) \o "." \o ext

\* C19: the filename of a non-omitted variant is
\* "{originalBaseName}-{W}x{H}.{ext}" with W and H the encoded width and
\* height, the values reported as the variant's width and height, and not
\* the requested target.
C19_FilenameFromEncodedSize ==
    \A i \in TaskIds : Encoded(i) =>
        LET entry == tasks[i].result.sizeData[imageSizes[i].name]
        IN  /\ entry.width = NonNull(tasks[i].info.width)
            /\ entry.height = NonNull(tasks[i].info.height)
            /\ entry.filename =
                  NonNull(ExpectedName(sanitizedImage.name, tasks[i].info.width,
                                       tasks[i].info.height, "png"))
            /\ (imageSizes[i].width # UNSET /\ imageSizes[i].height # UNSET
                  /\ tasks[i].info # Dim(imageSizes[i].width, imageSizes[i].height))
               => entry.filename #
                     NonNull(ExpectedName(sanitizedImage.name, imageSizes[i].width,
                                          imageSizes[i].height, "png"))

\* C19 witness: a variant asked for 2x2 and encoded as 1x1, named by 1x1
C19_Witness ==
    \E i \in TaskIds :
        /\ Encoded(i)
        /\ imageSizes[i].width = 2 /\ imageSizes[i].height = 2
        /\ tasks[i].info = Dim(1, 1)
        /\ tasks[i].result.sizeData[imageSizes[i].name].filename =
              NonNull("photo-1x1.png")

(***************************************************************************)
(* Properties of the wrapper driven directly (checked under SpecWrap).     *)
(***************************************************************************)
\* the image the extract of the call was applied to
wrapImage ==
    IF sharpResult.before.resizeOptions.set
    THEN calculateResizeDimensions(
             [loaded |-> TRUE, width |-> sharpInput.width,
              height |-> sharpInput.height],
             sharpResult.before.resizeOptions)
    ELSE sharpInput

wrapRequested == sharpResult.before.extractRegion

\* toBuffer was called with a pending extract on an image that exists
wrapExtractCase ==
    /\ sharpResult.called
    /\ wrapRequested.set
    /\ wrapImage.width >= 1 /\ wrapImage.height >= 1

\* C17: with a pending extract region the crop toBuffer performs satisfies
\* 0 <= left, 0 <= top, width >= 1, height >= 1, left + width <= imageWidth
\* and top + height <= imageHeight; toBuffer throws and produces no image
\* exactly when the clamped left is >= imageWidth or the clamped top is
\* >= imageHeight, so a region that only overhangs an edge is never an error.
C17_ExtractClamped ==
    wrapExtractCase =>
        LET result == sharpResult.result
            crop == result.cropped
        IN  /\ result.threw <=>
                  \/ Max(0, wrapRequested.left) >= wrapImage.width
                  \/ Max(0, wrapRequested.top) >= wrapImage.height
            /\ result.threw => result.data = NoData /\ ~crop.set
            /\ ~result.threw =>
                  /\ crop.set
                  /\ 0 <= crop.left /\ 0 <= crop.top
                  /\ crop.width >= 1 /\ crop.height >= 1
                  /\ crop.left + crop.width <= wrapImage.width
                  /\ crop.top + crop.height <= wrapImage.height
                  /\ result.croppedFrom = Dim(wrapImage.width, wrapImage.height)
                  /\ result.info = Dim(crop.width, crop.height)

\* C17 witness: a region that overhangs the right edge of a resized image
\* is cut back to the edge and encoded
C17_Witness ==
    /\ wrapExtractCase
    /\ sharpResult.before.resizeOptions.set
    /\ ~sharpResult.result.threw
    /\ wrapRequested.left > 0
    /\ wrapRequested.left + wrapRequested.width > wrapImage.width
    /\ sharpResult.result.cropped.left + sharpResult.result.cropped.width
          = wrapImage.width

(***************************************************************************)
(* Properties of sanitizeResizeConfig (checked under SpecSan).             *)
(***************************************************************************)
\* C20: with withoutReduction set the returned spec has fit = contain and
\* position = "left top" exactly where the field was unset, an explicit fit
\* or position is kept and every other field is unchanged; without
\* withoutReduction the spec is returned unchanged (the comparison is with
\* the caller's object, which the call leaves as it was).
C20_SanitizeDefaults ==
    sanResult.returned =>
        /\ sanConfig.withoutReduction = "true" =>
              sanResult.config =
                  [sanConfig EXCEPT
                      !.fit = IF @ = "undefined" THEN "contain" ELSE @,
                      !.position = IF @ = "undefined" THEN "left top" ELSE @]
        /\ sanConfig.withoutReduction # "true" => sanResult.config = sanConfig

\* C28: a variant with withoutEnlargement = true that takes the resize path
\* is encoded no wider and no higher than the original image.
C28_NoEnlargementOnResize ==
    \A i \in TaskIds :
        /\ Encoded(i)
        /\ tasks[i].action = "resize"
        /\ imageSizes[i].withoutEnlargement = "true"
        => /\ tasks[i].info.width <= dimensions.width
           /\ tasks[i].info.height <= dimensions.height

(***************************************************************************)
(* Properties of the output format and of repeated encoding (checked       *)
(* under SpecEnc).                                                         *)
(***************************************************************************)
\* the wrapper has just returned from toBuffer
encReturned == encBuffers.fresh /\ ~encBuffers.result.threw

\* C24: whenever a format the engine cannot encode was requested (any format
\* of toFormat but png, jpeg and jpg), the bytes toBuffer returns are PNG and
\* the format reported with them names the format of the bytes.
C24_UnsupportedFormatsUniform ==
    encReturned /\ encRequested \in RequestedFormats \ {"png", "jpeg", "jpg"} =>
        /\ encBuffers.result.data.format = "png"
        /\ encBuffers.result.format = encBuffers.result.data.format

\* C29: when toBuffer returns twice in a row on one wrapper, with no call in
\* between, both outputs have the same width and height.
C29_ToBufferRepeatable ==
    /\ encReturned
    /\ encBuffers.repeated
    /\ ~encBuffers.previous.threw
    => encBuffers.result.info = encBuffers.previous.info

(***************************************************************************)
(* Properties of clone() (checked under SpecOps).                          *)
(***************************************************************************)
\* what the claim compares of a wrapper: its pending operations, its output
\* format and encode options, and the size toBuffer would encode now
opsObserved(wrapper) ==
    [resizeOptions |-> wrapper.resizeOptions,
     extractRegion |-> wrapper.extractRegion,
     format |-> wrapper.format,
     encodeOptions |-> wrapper.encodeOptions,
     output |-> toBuffer(wrapper, opsInput).info]

C25_CropReturnsRequestedSize ==
    cropResult.returned /\ dimensionsChanged(cropArgs) =>
        /\ cropResult.info = Dim(cropArgs.widthInPixels, cropArgs.heightInPixels)
        /\ cropResult.cropped.left =
              percentToPixelExact(cropArgs.cropData.x, cropArgs.dimensions.width)
        /\ cropResult.cropped.top =
              percentToPixelExact(cropArgs.cropData.y, cropArgs.dimensions.height)

(***************************************************************************)
(* Properties of the focal point generateFileData resolves (checked under  *)
(* SpecDoc).                                                               *)
(***************************************************************************)
docParsed == docPc \in {"file", "sizes", "merge", "done"}

\* the coordinates the incoming data carry
docDataFocal == <<get(docArgs.data, "focalX"), get(docArgs.data, "focalY")>>

\* the coordinates of the stored document (undefined without a document)
docStoredFocal ==
    IF docArgs.originalDoc = null THEN <<null, null>>
    ELSE LET origDoc == CHOOSE doc \in docArgs.originalDoc : TRUE
         IN  <<get(origDoc, "focalX"), get(origDoc, "focalY")>>

docNoFocalVariant ==
    \A i \in DOMAIN docSizes.actions :
        docSizes.actions[i] # "resizeWithFocalPoint"

\* C21: on update, without a focal point in the request and with incoming
\* focalX / focalY equal to the stored ones, the parsed edits carry no focal
\* point, resizeAndTransformImageSizes returns none and takes no variant as
\* resizeWithFocalPoint, and without a file in the request (and without a
\* crop or a duplication, which ask for it themselves) the stored file is
\* not loaded again.
C21_UnchangedFocalPointIgnored ==
    /\ docArgs.operation = "update"
    /\ docArgs.query.focalPoint = null
    /\ docDataFocal = docStoredFocal
    => /\ docParsed => docUploadEdits.focalPoint = null
       /\ docSizes.called => docSizes.focalPoint = null /\ docNoFocalVariant
       /\ /\ docPc = "done"
          /\ ~docArgs.hasFile
          /\ ~docArgs.isDuplicating
          /\ ~docArgs.query.crop
          => docFile = "none"

\* C21 witness: an update that repeats the stored focal point (30, 70) with a
\* file in the request: the 300x300 variant of the 1000x500 image, which a
\* focal point would crop, is resized
C21_Witness ==
    /\ docArgs.operation = "update"
    /\ docArgs.query.focalPoint = null
    /\ docDataFocal = <<NonNull(30), NonNull(70)>>
    /\ docDataFocal = docStoredFocal
    /\ docSizes.called
    /\ docSizes.actions = <<"resize">>
    /\ getImageResizeAction(docDimensions, TRUE,
                            sanitizeResizeConfig(docImageSizes[1]))
          = "resizeWithFocalPoint"

\* the focal point the caller sends: the one of the request, else the one of
\* the incoming data
docCallerFocal ==
    IF docArgs.query.focalPoint = null THEN docDataFocal
    ELSE LET focalPoint == CHOOSE f \in docArgs.query.focalPoint : TRUE
         IN  <<focalPoint.x, focalPoint.y>>

\* C22: on update with a file being processed, when the incoming data carry
\* the stored focal point and the request names no other one, the returned
\* data still carry the stored focalX and focalY.
C22_StoredFocalPointRetained ==
    /\ docArgs.operation = "update"
    /\ docPc = "done"
    /\ docFile # "none"
    /\ hasStoredFocalPoint(docArgs.originalDoc)
    /\ docDataFocal = docStoredFocal
    /\ docCallerFocal = docStoredFocal
    => <<get(docData, "focalX"), get(docData, "focalY")>> = docStoredFocal

docCentre == NonNull([x |-> NonNull(50), y |-> NonNull(50)])

\* the incoming data supply a focal point: both coordinates are numbers
docDataSupplies == docDataFocal[1] # null /\ docDataFocal[2] # null

\* C23: a focal point of the request is used as it is; one of the incoming
\* data (a coordinate may be 0) is used unless it repeats the stored one;
\* with none supplied the focal point is the centre (50, 50) on create and
\* there is none on update.
C23_DefaultCentreOnlyOnCreate ==
    docParsed =>
        /\ docArgs.query.focalPoint # null
              => docUploadEdits.focalPoint = docArgs.query.focalPoint
        /\ /\ docArgs.query.focalPoint = null
           /\ docDataSupplies
           /\ ~focalPointUnchanged(docArgs)
           => docUploadEdits.focalPoint =
                  NonNull([x |-> docDataFocal[1], y |-> docDataFocal[2]])
        /\ /\ docArgs.query.focalPoint = null
           /\ ~docDataSupplies
           /\ ~docArgs.isDuplicating
           => docUploadEdits.focalPoint =
                  IF docArgs.operation = "create" THEN docCentre ELSE null

\* C27: with upload.focalPoint = false resizeAndTransformImageSizes returns
\* no focal point and takes no variant as resizeWithFocalPoint.
C27_DisabledFocalPointIgnored ==
    ~docArgs.focalPointEnabled /\ docSizes.called =>
        /\ docSizes.focalPoint = null
        /\ docNoFocalVariant

(***************************************************************************)
(* Properties of getSafeFileName (checked under SpecNameFair).             *)
(***************************************************************************)
\* the name before the last dot and the extension from that dot on; a name
\* without a dot has no extension
nameStem(name) ==
    IF lastDot(name, Len(name)) <= 1 THEN name
    ELSE SubSeq(name, 1, lastDot(name, Len(name)) - 1)

nameExt(name) ==
    IF lastDot(name, Len(name)) <= 1 THEN <<>>
    ELSE SubSeq(name, lastDot(name, Len(name)), Len(name))

\* the k-th name of the sequence desiredFilename, base-1.ext, base-2.ext, ...
nameCandidate(k) ==
    IF k = 0 THEN nameDesired
    ELSE nameStem(nameDesired) \o <<"-", ToString(k)>> \o nameExt(nameDesired)

\* C30: getSafeFileName returns the first name of the sequence
\* desiredFilename, base-1.ext, base-2.ext, ... that no file has (so the
\* desired name itself when it is free, and never the name of a file), and
\* it returns.
C30_FirstFreeName ==
    /\ [](namePc = "returned" =>
            /\ ~fileExists(nameFiles, nameSafe)
            /\ ~fileExists(nameFiles, nameDesired) => nameSafe = nameDesired
            /\ \E k \in 0..Cardinality(nameFiles) :
                  /\ nameSafe = nameCandidate(k)
                  /\ \A j \in 0..(k - 1) :
                        fileExists(nameFiles, nameCandidate(j)))
    /\ <>(namePc = "returned")

====
